---- MODULE Spec2Model ----
(***************************************************************************)
(* Snow-crystal growth automaton (Gravner-Griffeath variant) of            *)
(* necocen/snowflake: the lattice state, State::new and State::update of   *)
(* src/src/gravner_griffeath.rs, and the threaded driver around them.      *)
(*                                                                         *)
(* The f32 quantities are modelled as binary floating-point numbers of     *)
(* reduced width: MantBits significant bits, smallest step 2^-FracBits,     *)
(* every arithmetic operation rounded to nearest, ties to even, as the     *)
(* IEEE-754 operations of the code are.  A value v of the model stands for *)
(* the number v / Unit.                                                    *)
(***************************************************************************)
EXTENDS Integers, Sequences, FiniteSets, TLC

\* ------------------------------------------------------------------------
\* Bounds of the model
\* ------------------------------------------------------------------------

\* Largest lattice size explored (n ranges over 1..MaxN).
MaxN == 4

\* Most State::update calls applied to one seeded state.
MaxSteps == 3

\* Most updates of one run that draw a coin array (sigma not zero).
MaxDraws == 2

\* Most State::update calls the worker thread applies to one seeded state.
MaxRuns == 2

\* Largest side of a mask handed to extract_contours.
MaxGrid == 3

\* Side of the lattice of the worked scenario.
ScenarioN == 10

\* Most true cells, or else most false cells, of a mask drawn as an input.
MaxTrue == 4
MaxFalse == 4

\* Largest side of a lattice whose every ice mask is handed to State::update.
MaxMask == 3

\* Significant bits of the reduced-width float (24 in an f32).
MantBits == 8

\* Fraction bits of the smallest representable step (149 in an f32).
FracBits == 10

\* ------------------------------------------------------------------------
\* f32 arithmetic, reduced width
\* ------------------------------------------------------------------------

\* The model value of 1.0.
Unit == 2 ^ FracBits

Abs(x) == IF x < 0 THEN -x ELSE x

\* 2^MantBits: every natural number below it is a legal significand.
Mant == 2 ^ MantBits

\* num / den rounded to the nearest integer, ties to the even one (num >= 0).
RoundHalfEven(num, den) ==
    LET q == num \div den
        r == num % den
    IN  IF 2 * r > den \/ (2 * r = den /\ q % 2 = 1) THEN q + 1 ELSE q

\* The spacing of the representable values around q >= 0, in steps: the least
\* power of two g with q \div g below 2^MantBits (g = 1 when q is small).
RECURSIVE Ulp(_, _)
Ulp(q, g) == IF q < Mant THEN g ELSE Ulp(q \div 2, 2 * g)

\* The representable value nearest to num / den: at most MantBits significant
\* bits, never finer than one step.
Rnd(num, den) ==
    LET m == Abs(num)
        g == Ulp(m \div den, 1)
        r == g * RoundHalfEven(m, den * g)
    IN  IF num < 0 THEN -r ELSE r

\* A decimal literal num/den of the source, as the float nearest to it.
Lit(num, den) == Rnd(num * Unit, den)

\* `k as f32` for a small integer k.
IntToF(k) == Rnd(k * Unit, 1)

FAdd(x, y) == Rnd(x + y, 1)

FSub(x, y) == Rnd(x - y, 1)

FMul(x, y) == Rnd(x * y, Unit)

FDiv(x, y) == Rnd(x * Unit, y)

\* ------------------------------------------------------------------------
\* Lattice
\* ------------------------------------------------------------------------

Cells(n) == (0 .. n - 1) \X (0 .. n - 1)

\* The six neighbours of cell x on the n-torus, in the order the code reads them:
\* (i+1,j), (i-1,j), (i,j+1), (i,j-1), (i-1,j+1), (i+1,j-1).
Nbr(x, n) ==
    LET i == x[1]
        j == x[2]
    IN  << <<(i + 1) % n, j>>,
           <<(i + n - 1) % n, j>>,
           <<i, (j + 1) % n>>,
           <<i, (j + n - 1) % n>>,
           <<(i + n - 1) % n, (j + 1) % n>>,
           <<(i + 1) % n, (j + n - 1) % n>> >>

BoolToInt(p) == IF p THEN 1 ELSE 0

\* A value collected into storage (par_map_collect, clone, a map entry): the
\* same value, with every element computed once, at this point.
Collect(f) == IF f = f THEN f ELSE f

\* ------------------------------------------------------------------------
\* State::new
\* ------------------------------------------------------------------------

Seed(n) == <<n \div 2, n \div 2>>

\* State::new without `d[[n / 2, n / 2]] = 0.0`.
NewVaporEverywhere(n, rho) ==
    [a |-> [x \in Cells(n) |-> x = Seed(n)],
     b |-> [x \in Cells(n) |-> 0],
     c |-> [x \in Cells(n) |-> IF x = Seed(n) THEN IntToF(1) ELSE 0],
     d |-> [x \in Cells(n) |-> FMul(IntToF(1), rho)]]

New(n, rho) ==
    [a |-> [x \in Cells(n) |-> x = Seed(n)],
     b |-> [x \in Cells(n) |-> 0],
     c |-> [x \in Cells(n) |-> IF x = Seed(n) THEN IntToF(1) ELSE 0],
     d |-> [x \in Cells(n) |-> IF x = Seed(n) THEN 0 ELSE FMul(IntToF(1), rho)]]

\* ------------------------------------------------------------------------
\* State::update, stage by stage
\* ------------------------------------------------------------------------

\* A counter that leaves out the two diagonal neighbours.
NeighborsFour(a, n) ==
    [x \in Cells(n) |->
        LET y == Nbr(x, n)
        IN  BoolToInt(a[y[1]]) + BoolToInt(a[y[2]]) + BoolToInt(a[y[3]])
              + BoolToInt(a[y[4]])]

\* let neighbors = ... : ice neighbours of every cell, from the mask self.a.
Neighbors(a, n) ==
    [x \in Cells(n) |->
        LET y == Nbr(x, n)
        IN  BoolToInt(a[y[1]]) + BoolToInt(a[y[2]]) + BoolToInt(a[y[3]])
              + BoolToInt(a[y[4]]) + BoolToInt(a[y[5]]) + BoolToInt(a[y[6]])]

\* Diffusion without the `neighbors as f32 * d_old` term.
DiffuseCellNoReflection(d, x, k, n) ==
    LET y == Nbr(x, n)
    IN  FDiv(FAdd(FAdd(FAdd(FAdd(FAdd(FAdd(d[x],
                                            d[y[1]]),
                                       d[y[2]]),
                                  d[y[3]]),
                             d[y[4]]),
                        d[y[5]]),
                   d[y[6]]),
             IntToF(7))

\* (i) Diffusion: the value written to d_new for one non-ice cell.
DiffuseCell(d, x, k, n) ==
    LET y == Nbr(x, n)
    IN  FDiv(FAdd(FAdd(FAdd(FAdd(FAdd(FAdd(FAdd(d[x],
                                                 d[y[1]]),
                                            d[y[2]]),
                                       d[y[3]]),
                                  d[y[4]]),
                             d[y[5]]),
                        d[y[6]]),
                   FMul(IntToF(k), d[x])),
             IntToF(7))

\* A Diffusion that writes d_new for ice cells as well.
DiffusionEverywhere(a, d, neighbors, n) ==
    [x \in Cells(n) |-> DiffuseCell(d, x, neighbors[x], n)]

\* (i) Diffusion: d_new, zero-initialised, written for non-ice cells only.
Diffusion(a, d, neighbors, n) ==
    [x \in Cells(n) |-> IF ~a[x] THEN DiffuseCell(d, x, neighbors[x], n) ELSE 0]

\* Freezing that forgets `*d = 0.0`.
FreezingKeepsVapor(a, b, c, d_new, neighbors, kappa, n) ==
    LET frz(x) == ~a[x] /\ neighbors[x] > 0
    IN  [b |-> [x \in Cells(n) |->
                  IF frz(x) THEN FAdd(b[x], FMul(FSub(IntToF(1), kappa), d_new[x]))
                            ELSE b[x]],
         c |-> [x \in Cells(n) |->
                  IF frz(x) THEN FAdd(c[x], FMul(kappa, d_new[x])) ELSE c[x]],
         d |-> d_new]

\* Freezing without the test `neighbors > 0`.
FreezingEverywhere(a, b, c, d_new, neighbors, kappa, n) ==
    LET frz(x) == ~a[x]
    IN  [b |-> [x \in Cells(n) |->
                  IF frz(x) THEN FAdd(b[x], FMul(FSub(IntToF(1), kappa), d_new[x]))
                            ELSE b[x]],
         c |-> [x \in Cells(n) |->
                  IF frz(x) THEN FAdd(c[x], FMul(kappa, d_new[x])) ELSE c[x]],
         d |-> [x \in Cells(n) |-> IF frz(x) THEN 0 ELSE d_new[x]]]

\* (ii) Freezing: boundary cells absorb their vapour.
Freezing(a, b, c, d_new, neighbors, kappa, n) ==
    LET frz(x) == ~a[x] /\ neighbors[x] > 0
    IN  [b |-> [x \in Cells(n) |->
                  IF frz(x) THEN FAdd(b[x], FMul(FSub(IntToF(1), kappa), d_new[x]))
                            ELSE b[x]],
         c |-> [x \in Cells(n) |->
                  IF frz(x) THEN FAdd(c[x], FMul(kappa, d_new[x])) ELSE c[x]],
         d |-> [x \in Cells(n) |-> IF frz(x) THEN 0 ELSE d_new[x]]]

\* An early return that lets cells without ice neighbours through.
PassesIceOnly(a, k) == ~a

\* `if a_old || neighbors == 0 { return; }`: the cell goes on to the match.
Passes(a, k) == ~(a \/ k = 0)

\* The match with the arm of 1..=2 taken for 3 as well.
AttachesAsTip(bx, k, dsum, beta, alpha, theta) ==
    CASE k \in 1 .. 3 -> bx >= beta
      [] OTHER -> TRUE

\* (iii) Attachment: the match on the neighbour count of one boundary cell.
Attaches(bx, k, dsum, beta, alpha, theta) ==
    CASE k \in 1 .. 2 -> bx >= beta
      [] k = 3 -> bx >= IntToF(1) \/ (bx >= alpha /\ dsum < theta)
      [] OTHER -> TRUE

\* Sum of the neighbours' post-freezing vapour, in the order of the code.
NeighborVapor(d_new, x, n) ==
    LET y == Nbr(x, n)
    IN  FAdd(FAdd(FAdd(FAdd(FAdd(d_new[y[1]], d_new[y[2]]), d_new[y[3]]),
                       d_new[y[4]]), d_new[y[5]]), d_new[y[6]])

\* The arm of the match taken by a cell that passed the early return:
\* `*a = match ...; if *a { *c += *b; *b = 0.0; }`.
Attach(bx, cx, k, dsum, beta, alpha, theta) ==
    IF Attaches(bx, k, dsum, beta, alpha, theta)
      THEN [a |-> TRUE, b |-> 0, c |-> FAdd(cx, bx)]
      ELSE [a |-> FALSE, b |-> bx, c |-> cx]

\* AttachCell without the early return for cells that are already ice.
AttachCellNoIceGuard(a, bx, cx, k, dsum, beta, alpha, theta) ==
    IF k = 0
      THEN [a |-> a, b |-> bx, c |-> cx]
      ELSE Attach(bx, cx, k, dsum, beta, alpha, theta)

\* AttachCell without the early return for cells with no ice neighbour.
AttachCellNoBoundaryGuard(a, bx, cx, k, dsum, beta, alpha, theta) ==
    IF a
      THEN [a |-> a, b |-> bx, c |-> cx]
      ELSE Attach(bx, cx, k, dsum, beta, alpha, theta)

\* AttachCell that zeroes the boundary mass of a freezing cell without `*c += *b`.
AttachCellDropsMass(a, bx, cx, k, dsum, beta, alpha, theta) ==
    IF a \/ k = 0
      THEN [a |-> a, b |-> bx, c |-> cx]
      ELSE IF Attaches(bx, k, dsum, beta, alpha, theta)
             THEN [a |-> TRUE, b |-> 0, c |-> cx]
             ELSE [a |-> FALSE, b |-> bx, c |-> cx]

\* (iii) Attachment: what the closure leaves in a_new, b_new, c_new for one cell
\* (a_new starts as a clone of self.a).
AttachCell(a, bx, cx, k, dsum, beta, alpha, theta) ==
    IF ~Passes(a, k)
      THEN [a |-> a, b |-> bx, c |-> cx]
      ELSE Attach(bx, cx, k, dsum, beta, alpha, theta)

\* Some cell reaches the arm `0 => panic!("not a boundary cell")`.
Panics(a, neighbors, n) ==
    \E x \in Cells(n) : Passes(a[x], neighbors[x]) /\ neighbors[x] = 0

Attachment(a, b_new, c_new, d_new, neighbors, beta, alpha, theta, n) ==
    LET cell == Collect([x \in Cells(n) |->
                    AttachCell(a[x], b_new[x], c_new[x], neighbors[x],
                               NeighborVapor(d_new, x, n), beta, alpha, theta)])
    IN  [a |-> [x \in Cells(n) |-> cell[x].a],
         b |-> [x \in Cells(n) |-> cell[x].b],
         c |-> [x \in Cells(n) |-> cell[x].c]]

\* A boundary test without `!a_new[[i, j]]`.
BoundaryOfAnyCell(a_new, x, n) ==
    LET y == Nbr(x, n)
    IN  a_new[y[1]] \/ a_new[y[2]] \/ a_new[y[3]]
          \/ a_new[y[4]] \/ a_new[y[5]] \/ a_new[y[6]]

\* (iv) Melting: non-ice cells with an ice neighbour in a_new.
Boundary(a_new, x, n) ==
    LET y == Nbr(x, n)
    IN  ~a_new[x] /\ (a_new[y[1]] \/ a_new[y[2]] \/ a_new[y[3]]
                        \/ a_new[y[4]] \/ a_new[y[5]] \/ a_new[y[6]])

Melting(a_new, b_new, c_new, d_new, mu, gamma, n) ==
    LET mu_b(x) == FMul(mu, b_new[x])
        gamma_c(x) == FMul(gamma, c_new[x])
    IN  [b |-> [x \in Cells(n) |->
                  IF Boundary(a_new, x, n) THEN FSub(b_new[x], mu_b(x)) ELSE b_new[x]],
         c |-> [x \in Cells(n) |->
                  IF Boundary(a_new, x, n) THEN FSub(c_new[x], gamma_c(x)) ELSE c_new[x]],
         d |-> [x \in Cells(n) |->
                  IF Boundary(a_new, x, n)
                    THEN FAdd(d_new[x], FAdd(mu_b(x), gamma_c(x)))
                    ELSE d_new[x]]]

\* A noise whose tails factor is sigma - 1.
NoiseTailsNegates(d_new, sigma, noise, n) ==
    IF Abs(sigma) > 0
      THEN [x \in Cells(n) |->
              IF noise[x] THEN FMul(d_new[x], FAdd(IntToF(1), sigma))
                          ELSE FMul(d_new[x], FSub(sigma, IntToF(1)))]
      ELSE d_new

\* A noise that takes the coin of cell (0, 0) for every cell.
NoiseOneCoin(d_new, sigma, noise, n) ==
    IF Abs(sigma) > 0
      THEN [x \in Cells(n) |->
              IF noise[<<0, 0>>] THEN FMul(d_new[x], FAdd(IntToF(1), sigma))
                                 ELSE FMul(d_new[x], FSub(IntToF(1), sigma))]
      ELSE d_new

\* A noise that shifts the vapour by sigma instead of scaling it.
NoiseShifts(d_new, sigma, noise, n) ==
    IF Abs(sigma) > 0
      THEN [x \in Cells(n) |->
              IF noise[x] THEN FAdd(d_new[x], sigma) ELSE FSub(d_new[x], sigma)]
      ELSE d_new

\* (v) Noise: one coin per cell, consulted only when sigma is not zero.
Noise(d_new, sigma, noise, n) ==
    IF Abs(sigma) > 0
      THEN [x \in Cells(n) |->
              IF noise[x] THEN FMul(d_new[x], FAdd(IntToF(1), sigma))
                          ELSE FMul(d_new[x], FSub(IntToF(1), sigma))]
      ELSE d_new

\* State::update: the state after one update of state s under config, with
\* noise the coin array the generator would deliver.
Update(s, config, noise, n) ==
    LET neighbors == Collect(Neighbors(s.a, n))
        dif == Collect(Diffusion(s.a, s.d, neighbors, n))
        frz == Collect(Freezing(s.a, s.b, s.c, dif, neighbors, config.kappa, n))
        att == Collect(Attachment(s.a, frz.b, frz.c, frz.d, neighbors,
                          config.beta, config.alpha, config.theta, n))
        mel == Melting(att.a, att.b, att.c, frz.d, config.mu, config.gamma, n)
    IN  [a |-> att.a, b |-> mel.b, c |-> mel.c,
         d |-> Noise(mel.d, config.sigma, noise, n)]

\* ------------------------------------------------------------------------
\* State::update of gravner_griffeath_wasm.rs: the same stages with for_each
\* in place of par_for_each. Each stage visits the cells one after another in
\* the sequence `order`, writing the arrays in place.
\* ------------------------------------------------------------------------

\* (i) Diffusion, from the cells of `order` on; d_new holds what was written so
\* far, the closure reads self.a, self.d and neighbors.
RECURSIVE DiffusionIn(_, _, _, _, _, _)
DiffusionIn(d_new, a, d, neighbors, order, n) ==
    IF order = << >> THEN d_new
    ELSE LET x == Head(order)
             next == Collect(IF ~a[x]
                               THEN [d_new EXCEPT ![x] = DiffuseCell(d, x, neighbors[x], n)]
                               ELSE d_new)
         IN  IF next = d_new THEN DiffusionIn(d_new, a, d, neighbors, Tail(order), n)
             ELSE DiffusionIn(next, a, d, neighbors, Tail(order), n)

\* (ii) Freezing in place on (b_new, c_new, d_new), held in the record s.
RECURSIVE FreezingIn(_, _, _, _, _)
FreezingIn(s, a, neighbors, kappa, order) ==
    IF order = << >> THEN s
    ELSE LET x == Head(order)
             next == Collect(
                 IF ~a[x] /\ neighbors[x] > 0
                   THEN [b |-> [s.b EXCEPT ![x] =
                                  FAdd(s.b[x], FMul(FSub(IntToF(1), kappa), s.d[x]))],
                         c |-> [s.c EXCEPT ![x] = FAdd(s.c[x], FMul(kappa, s.d[x]))],
                         d |-> [s.d EXCEPT ![x] = 0]]
                   ELSE s)
         IN  IF next = s THEN FreezingIn(s, a, neighbors, kappa, Tail(order))
             ELSE FreezingIn(next, a, neighbors, kappa, Tail(order))

RECURSIVE AttachmentIn(_, _, _, _, _, _, _, _, _)
RECURSIVE AttachmentInLive(_, _, _, _, _, _, _, _, _)

\* An attachment that counts the ice neighbours in the mask being written.
AttachmentInLive(s, a, d_new, neighbors, beta, alpha, theta, order, n) ==
    IF order = << >> THEN s
    ELSE LET x == Head(order)
             cell == AttachCell(a[x], s.b[x], s.c[x], Neighbors(s.a, n)[x],
                                NeighborVapor(d_new, x, n), beta, alpha, theta)
             next == Collect([a |-> [s.a EXCEPT ![x] = cell.a],
                              b |-> [s.b EXCEPT ![x] = cell.b],
                              c |-> [s.c EXCEPT ![x] = cell.c]])
         IN  IF next = s
               THEN AttachmentInLive(s, a, d_new, neighbors, beta, alpha, theta,
                                     Tail(order), n)
               ELSE AttachmentInLive(next, a, d_new, neighbors, beta, alpha, theta,
                                     Tail(order), n)

\* (iii) Attachment in place on (a_new, b_new, c_new), held in the record s;
\* the closure reads self.a, neighbors and d_new.
AttachmentIn(s, a, d_new, neighbors, beta, alpha, theta, order, n) ==
    IF order = << >> THEN s
    ELSE LET x == Head(order)
             cell == AttachCell(a[x], s.b[x], s.c[x], neighbors[x],
                                NeighborVapor(d_new, x, n), beta, alpha, theta)
             next == Collect([a |-> [s.a EXCEPT ![x] = cell.a],
                              b |-> [s.b EXCEPT ![x] = cell.b],
                              c |-> [s.c EXCEPT ![x] = cell.c]])
         IN  IF next = s
               THEN AttachmentIn(s, a, d_new, neighbors, beta, alpha, theta,
                                 Tail(order), n)
               ELSE AttachmentIn(next, a, d_new, neighbors, beta, alpha, theta,
                                 Tail(order), n)

\* (iv) Melting in place on (b_new, c_new, d_new), held in the record s; the
\* closure reads a_new.
RECURSIVE MeltingIn(_, _, _, _, _, _)
MeltingIn(s, a_new, mu, gamma, order, n) ==
    IF order = << >> THEN s
    ELSE LET x == Head(order)
             mu_b == FMul(mu, s.b[x])
             gamma_c == FMul(gamma, s.c[x])
             next == Collect(
                 IF Boundary(a_new, x, n)
                   THEN [b |-> [s.b EXCEPT ![x] = FSub(s.b[x], mu_b)],
                         c |-> [s.c EXCEPT ![x] = FSub(s.c[x], gamma_c)],
                         d |-> [s.d EXCEPT ![x] = FAdd(s.d[x], FAdd(mu_b, gamma_c))]]
                   ELSE s)
         IN  IF next = s THEN MeltingIn(s, a_new, mu, gamma, Tail(order), n)
             ELSE MeltingIn(next, a_new, mu, gamma, Tail(order), n)

\* (v) Noise in place on d_new.
RECURSIVE NoiseIn(_, _, _, _)
NoiseIn(d_new, sigma, noise, order) ==
    IF order = << >> THEN d_new
    ELSE LET x == Head(order)
             next == Collect([d_new EXCEPT ![x] =
                        IF noise[x] THEN FMul(d_new[x], FAdd(IntToF(1), sigma))
                                    ELSE FMul(d_new[x], FSub(IntToF(1), sigma))])
         IN  IF next = d_new THEN NoiseIn(d_new, sigma, noise, Tail(order))
             ELSE NoiseIn(next, sigma, noise, Tail(order))

\* The update with every stage visiting the cells in the sequence `order`.
UpdateIn(s, config, noise, order, n) ==
    LET neighbors == Collect(Neighbors(s.a, n))
        dif == DiffusionIn([x \in Cells(n) |-> 0], s.a, s.d, neighbors, order, n)
        frz == FreezingIn([b |-> s.b, c |-> s.c, d |-> dif], s.a, neighbors,
                          config.kappa, order)
        att == AttachmentIn([a |-> s.a, b |-> frz.b, c |-> frz.c], s.a, frz.d,
                            neighbors, config.beta, config.alpha, config.theta,
                            order, n)
        mel == MeltingIn([b |-> att.b, c |-> att.c, d |-> frz.d], att.a,
                         config.mu, config.gamma, order, n)
    IN  [a |-> att.a, b |-> mel.b, c |-> mel.c,
         d |-> IF Abs(config.sigma) > 0
                 THEN NoiseIn(mel.d, config.sigma, noise, order)
                 ELSE mel.d]

\* Row-major order, the order of for_each over an array in standard layout.
RowMajor(n) == [p \in 1 .. n * n |-> <<(p - 1) \div n, (p - 1) % n>>]

\* Other orders in which the tasks of par_for_each can take the cells:
\* backwards, column by column, and every second cell first.
Backwards(n) == [p \in 1 .. n * n |-> RowMajor(n)[n * n + 1 - p]]

ColumnMajor(n) == [p \in 1 .. n * n |-> <<(p - 1) % n, (p - 1) \div n>>]

Striding(n) ==
    LET half == (n * n + 1) \div 2
    IN  [p \in 1 .. n * n |->
           IF p <= half THEN RowMajor(n)[2 * p - 1]
                        ELSE RowMajor(n)[2 * (p - half)]]

Orders(n) == {RowMajor(n), Backwards(n), ColumnMajor(n), Striding(n)}

\* The sequential update of gravner_griffeath_wasm.rs.
UpdateSequential(s, config, noise, n) == UpdateIn(s, config, noise, RowMajor(n), n)

\* ------------------------------------------------------------------------
\* Parameter sets (SimulationConfigInner)
\* ------------------------------------------------------------------------

Config(rho, beta, alpha, theta, kappa, mu, gamma, sigma) ==
    [rho |-> rho, beta |-> beta, alpha |-> alpha, theta |-> theta,
     kappa |-> kappa, mu |-> mu, gamma |-> gamma, sigma |-> sigma]

\* SimulationConfigInner::default().
DefaultConfig ==
    Config(Lit(5, 10), Lit(14, 10), Lit(1, 10), Lit(5, 1000),
           Lit(1, 1000), Lit(6, 100), Lit(1, 1000), 0)

\* Parameter sets under which cells freeze within a few updates.
QuickConfig ==
    Config(Lit(1, 1), Lit(1, 1), Lit(1, 10), Lit(1, 2),
           Lit(1, 8), Lit(1, 16), Lit(1, 100), 0)

SkewConfig ==
    Config(Lit(4, 10), Lit(580, 1024), Lit(1, 10), Lit(5, 1000),
           Lit(1, 1000), Lit(6, 100), Lit(1, 1000), 0)

\* Values outside the slider ranges: the core does not validate them.
WildConfig ==
    Config(Lit(3, 10), Lit(-1, 4), Lit(3, 2), Lit(-1, 8),
           Lit(3, 2), Lit(5, 4), Lit(-1, 2), 0)

Configs == {DefaultConfig, QuickConfig, SkewConfig, WildConfig}

\* QuickConfig with the noise slider raised.
NoisyConfig ==
    Config(Lit(1, 1), Lit(1, 1), Lit(1, 10), Lit(1, 2),
           Lit(1, 8), Lit(1, 16), Lit(1, 100), Lit(1, 4))

NoiseConfigs == {QuickConfig, NoisyConfig}

\* ------------------------------------------------------------------------
\* The automaton: a state built by State::new and advanced by State::update
\* ------------------------------------------------------------------------

VARIABLES
    n,        \* lattice size
    state,    \* the State {a, b, c, d}
    op,       \* the last operation: "new" or "update"
    used,     \* the parameter set that operation was given
    coins,    \* the coin array it drew (<< >> when none was drawn)
    pre,      \* the State before that operation
    steps,    \* updates applied since the state was last built
    draws     \* updates of this run that drew a coin array

\* The threaded driver around the state (setup, event_listener, configure_ui).
VARIABLES
    pc,          \* the worker thread's position in its loop
    shared,      \* the SimulationConfig resource, behind its lock
    copy,        \* the worker's `config`: its copy of the shared parameter set
    old_config,  \* the worker's old_config
    log,         \* the SimulationConfigLog records
    field,       \* the Field resource, behind its lock: cells, step, is_running
    seen,        \* the cells a reader last took under the read lock
    stale,       \* a Reset came for a state that updates had advanced, and the
                 \* state was not rebuilt since
    lost,        \* the last update was applied while stale
    shown,       \* field.step as published with the last update
    published    \* the worker has published cells

auto == <<n, state, op, used, coins, pre, steps, draws>>

driver == <<pc, shared, copy, old_config, log, field, seen, stale, lost,
            shown, published>>

\* extract_contours at work on a mask.
VARIABLES
    grid,        \* the mask handed to extract_contours (<< >> when none is)
    gn,          \* its side
    segments,    \* the start-to-end map, as the set of its <<start, end>> entries
    contours,    \* the contours walked so far, in integer vertex coordinates
    outline,     \* the value extract_contours returned
    cpc          \* its position: "emit", "walk", "done" ("idle" when not called)

contour == <<grid, gn, segments, contours, outline, cpc>>

\* The three read/write locks and the threads and systems that take them.
VARIABLES
    standing,       \* where each of them stands in its code
    held,        \* for each lock, its writer ("none" when it has none) and its readers
    nested       \* the pairs <<lock held, lock taken>> seen so far

locks == <<standing, held, nested>>

\* cells_to_triangles at work on the cells of the field.
VARIABLES
    cells,       \* the array handed to cells_to_triangles (<< >> when none is)
    ends,        \* its segments map: for each start vertex, the set of its ends
    traced,      \* its contours, the one being walked last
    spc,         \* its position: "emit", "pick", "follow", "done"; "abort" after
                 \* a panic ("idle" when not called)
    warnings     \* the "Should be 1" warnings logged

surface == <<cells, ends, traced, spc, warnings>>

\* The Reiter variant (reiter.rs).
VARIABLES
    reiter_field,    \* the ReiterField: cells, step, is_running (<< >> when not set up)
    reiter_config    \* its SimulationConfig: alpha, beta, gamma

reiter == <<reiter_field, reiter_config>>

vars == <<auto, driver, contour, locks, surface, reiter>>

\* The coin arrays explored: every cell heads, every cell tails, the two
\* checkerboards, and the arrays in which cell (0, 0) differs from all others.
Coins(m) ==
    {[x \in Cells(m) |-> h] : h \in BOOLEAN}
      \cup {[x \in Cells(m) |-> ((x[1] + x[2]) % 2 = 0) = h] : h \in BOOLEAN}
      \cup {[x \in Cells(m) |-> (x = <<0, 0>>) = h] : h \in BOOLEAN}

\* A driver that draws the coin array whatever sigma is.
NoiseArraysAlways(config, m) ==
    Coins(m)

\* let noise = Array2::<bool>::random(...), inside `if sigma.abs() > 0.0`: no
\* array is drawn when sigma is 0.
NoiseArrays(config, m) ==
    IF Abs(config.sigma) > 0 THEN Coins(m) ELSE {<< >>}

\* Field::new(n): no cell holds anything, step 0, not running.
FieldNew(m) ==
    [cells |-> [x \in Cells(m) |-> 0], step |-> 0, is_running |-> FALSE]

\* The worker thread, event_listener, configure_ui, the Pause / Resume button,
\* update_visualization and write_to_stl.
Procs == {"worker", "listener", "ui", "button", "vis", "stl"}

\* field, config and log: each an Arc<RwLock<..>>.
Locks == {"field", "config", "log"}

\* The worker is about to copy the configuration, everyone else is between
\* two calls, and no lock is held.
LocksInit ==
    /\ standing = [p \in Procs |-> IF p = "worker" THEN "copy" ELSE "idle"]
    /\ held = [l \in Locks |-> [writer |-> "none", readers |-> {}]]
    /\ nested = {}

\* The resources and the worker's locals as setup finds and creates them.
DriverInit ==
    /\ LocksInit
    /\ pc = "top"
    /\ shared = DefaultConfig
    /\ copy = DefaultConfig
    /\ old_config = DefaultConfig
    /\ log = << >>
    /\ field = FieldNew(n)
    /\ seen = << >>
    /\ stale = FALSE
    /\ lost = FALSE
    /\ shown = 0
    /\ published = FALSE

\* let mut state = State::new(n, rho), on a lattice of one of the sizes.
InitState(sizes, configs) ==
    /\ n \in sizes
    /\ \E config \in configs :
         /\ state = New(n, config.rho)
         /\ used = config
         /\ pre = New(n, config.rho)
    /\ op = "new"
    /\ coins = << >>
    /\ steps = 0
    /\ draws = 0

\* extract_contours is not running.
ContourIdle ==
    /\ grid = << >>
    /\ gn = 0
    /\ segments = {}
    /\ contours = << >>
    /\ outline = << >>
    /\ cpc = "idle"

\* The Reiter simulator is not part of the run.
ReiterIdle == reiter_field = << >> /\ reiter_config = << >>

\* cells_to_triangles is not running.
SurfaceIdle ==
    /\ cells = << >>
    /\ ends = << >>
    /\ traced = << >>
    /\ spc = "idle"
    /\ warnings = 0

InitWith(configs) ==
    /\ InitState(1 .. MaxN, configs)
    /\ DriverInit
    /\ ContourIdle
    /\ SurfaceIdle
    /\ ReiterIdle

\* state = State::new(n, config.rho)
RebuildState(config) ==
    /\ state' = New(n, config.rho)
    /\ op' = "new"
    /\ used' = config
    /\ coins' = << >>
    /\ pre' = state
    /\ steps' = 0
    /\ UNCHANGED <<n, draws>>

\* state.update(config); a panic in Attachment unwinds before self.a .. self.d
\* are assigned.
StepState(config) ==
    /\ steps < MaxSteps
    /\ Abs(config.sigma) > 0 => draws < MaxDraws
    /\ \E noise \in NoiseArrays(config, n) :
         /\ state' = IF Panics(state.a, Neighbors(state.a, n), n)
                        THEN state
                        ELSE Update(state, config, noise, n)
         /\ coins' = noise
    /\ op' = IF Panics(state.a, Neighbors(state.a, n), n) THEN "panic" ELSE "update"
    /\ used' = config
    /\ pre' = state
    /\ steps' = steps + 1
    /\ draws' = IF Abs(config.sigma) > 0 THEN draws + 1 ELSE draws
    /\ UNCHANGED n

Rebuild(config) ==
    RebuildState(config) /\ UNCHANGED <<driver, contour, locks, surface, reiter>>

Step(config) ==
    StepState(config) /\ UNCHANGED <<driver, contour, locks, surface, reiter>>

\* The automaton without noise: every parameter set has sigma = 0.
Init == InitWith(Configs)

Next ==
    \/ \E config \in Configs : Rebuild(config)
    \/ \E config \in Configs : Step(config)

Spec == Init /\ [][Next]_vars

\* The same automaton on the lattice of side ScenarioN, with the default
\* parameters and two other sets.
ScenarioConfigs == {DefaultConfig, QuickConfig, SkewConfig}

ScenarioInit ==
    /\ InitState({ScenarioN}, ScenarioConfigs)
    /\ DriverInit
    /\ ContourIdle
    /\ SurfaceIdle
    /\ ReiterIdle

ScenarioNext ==
    \/ \E config \in ScenarioConfigs : Rebuild(config)
    \/ \E config \in ScenarioConfigs : Step(config)

ScenarioSpec == ScenarioInit /\ [][ScenarioNext]_vars

\* A State whose ice mask is any mask: ice cells hold crystal mass 1, the
\* other cells hold vapour rho.
MaskState(mask, m, rho) ==
    [a |-> mask,
     b |-> [x \in Cells(m) |-> 0],
     c |-> [x \in Cells(m) |-> IF mask[x] THEN IntToF(1) ELSE 0],
     d |-> [x \in Cells(m) |-> IF mask[x] THEN 0 ELSE FMul(IntToF(1), rho)]]

\* State::update called once on a state with any ice mask of at most MaxTrue
\* ice cells or at most MaxFalse other cells, on a lattice of side 1..MaxMask.
NeighborInit ==
    /\ n \in 1 .. MaxMask
    /\ \E mask \in {g \in [Cells(n) -> BOOLEAN] :
                       \/ Cardinality({x \in Cells(n) : g[x]}) <= MaxTrue
                       \/ Cardinality({x \in Cells(n) : ~g[x]}) <= MaxFalse} :
         /\ state = MaskState(mask, n, QuickConfig.rho)
         /\ pre = MaskState(mask, n, QuickConfig.rho)
    /\ op = "given"
    /\ used = QuickConfig
    /\ coins = << >>
    /\ steps = 0
    /\ draws = 0
    /\ DriverInit
    /\ ContourIdle
    /\ SurfaceIdle
    /\ ReiterIdle

NeighborNext ==
    steps = 0 /\ Step(QuickConfig)

NeighborSpec == NeighborInit /\ [][NeighborNext]_vars

\* The automaton with the noise stage switched on and off between updates.
NoiseInit == InitWith(NoiseConfigs)

NoiseNext ==
    \/ \E config \in NoiseConfigs : Rebuild(config)
    \/ \E config \in NoiseConfigs : Step(config)

NoiseSpec == NoiseInit /\ [][NoiseNext]_vars

\* ------------------------------------------------------------------------
\* The threaded driver: the worker loop of setup, event_listener, configure_ui
\* and the readers of field.cells. A step of the model is one lock acquisition
\* of the code together with the thread-local work that follows it.
\* ------------------------------------------------------------------------

\* The slider positions the UI moves rho and beta to.
RhoSettings == {Lit(1, 1)}

BetaSettings == {Lit(1, 1)}

\* A publication that copies crystal_mass whatever the ice mask says.
SnapshotAllCrystal(s, m) ==
    [x \in Cells(m) |-> s.c[x]]

\* Zip::from(&state.a).and(&state.c).par_map_collect(|&a, &c| if a { c } else { 0.0 })
Snapshot(s, m) ==
    [x \in Cells(m) |-> IF s.a[x] THEN s.c[x] ELSE 0]

\* let config = *config.read();
CopyConfig ==
    /\ pc = "top"
    /\ copy' = shared
    /\ pc' = "reset?"
    /\ UNCHANGED <<auto, shared, old_config, log, field, seen, stale, lost,
                   shown, published>>
    /\ UNCHANGED <<contour, locks, surface, reiter>>

\* if field.read().step == 0 {
CheckReset ==
    /\ pc = "reset?"
    /\ pc' = IF field.step = 0 THEN "rebuild" ELSE "running?"
    /\ UNCHANGED <<auto, shared, copy, old_config, log, field, seen, stale,
                   lost, shown, published>>
    /\ UNCHANGED <<contour, locks, surface, reiter>>

\* log.write().clear(); state = State::new(n, config.rho);
ClearAndRebuild ==
    /\ pc = "rebuild"
    /\ log' = << >>
    /\ RebuildState(copy)
    /\ stale' = FALSE
    /\ lost' = FALSE
    /\ pc' = "publish"
    /\ UNCHANGED <<shared, copy, old_config, field, seen, shown, published>>
    /\ UNCHANGED <<contour, locks, surface, reiter>>

\* field.write().cells = Zip::from(&state.a).and(&state.c)... }
PublishSeed ==
    /\ pc = "publish"
    /\ field' = [field EXCEPT !.cells = Snapshot(state, n)]
    /\ published' = TRUE
    /\ pc' = "running?"
    /\ UNCHANGED <<auto, shared, copy, old_config, log, seen, stale, lost,
                   shown>>
    /\ UNCHANGED <<contour, locks, surface, reiter>>

\* A worker that goes on whatever is_running says.
CheckRunningAlways ==
    /\ pc = "running?"
    /\ pc' = "changed?"
    /\ UNCHANGED <<auto, shared, copy, old_config, log, field, seen, stale,
                   lost, shown, published>>
    /\ UNCHANGED <<contour, locks, surface, reiter>>

\* if !field.read().is_running { continue; }
CheckRunning ==
    /\ pc = "running?"
    /\ pc' = IF field.is_running THEN "changed?" ELSE "top"
    /\ UNCHANGED <<auto, shared, copy, old_config, log, field, seen, stale,
                   lost, shown, published>>
    /\ UNCHANGED <<contour, locks, surface, reiter>>

\* if old_config != config || field.read().step == 0 {
CheckChanged ==
    /\ pc = "changed?"
    /\ pc' = IF old_config # copy \/ field.step = 0 THEN "record" ELSE "step"
    /\ UNCHANGED <<auto, shared, copy, old_config, log, field, seen, stale,
                   lost, shown, published>>
    /\ UNCHANGED <<contour, locks, surface, reiter>>

\* log.write().push(SimulationConfigLogRecord::new(field.read().step, &config));
\* old_config = config; }
Record ==
    /\ pc = "record"
    /\ log' = Append(log, [step |-> field.step, config |-> copy])
    /\ old_config' = copy
    /\ pc' = "step"
    /\ UNCHANGED <<auto, shared, copy, field, seen, stale, lost, shown,
                   published>>
    /\ UNCHANGED <<contour, locks, surface, reiter>>

\* A worker that reads the shared configuration again for the update.
WorkerStepRereads ==
    /\ pc = "step"
    /\ steps < MaxRuns
    /\ StepState(shared)
    /\ field' = [field EXCEPT !.step = field.step + 1,
                              !.cells = Snapshot(state', n)]
    /\ lost' = stale
    /\ shown' = field.step + 1
    /\ published' = TRUE
    /\ pc' = "top"
    /\ UNCHANGED <<shared, copy, old_config, log, seen, stale>>
    /\ UNCHANGED <<contour, locks, surface, reiter>>

\* let mut field = field.write(); field.step += 1; state.update(config);
\* field.cells = Zip::from(&state.a).and(&state.c)...; and the guard is dropped.
WorkerStep ==
    /\ pc = "step"
    /\ steps < MaxRuns
    /\ StepState(copy)
    /\ field' = [field EXCEPT !.step = field.step + 1,
                              !.cells = Snapshot(state', n)]
    /\ lost' = stale
    /\ shown' = field.step + 1
    /\ published' = TRUE
    /\ pc' = "top"
    /\ UNCHANGED <<shared, copy, old_config, log, seen, stale>>
    /\ UNCHANGED <<contour, locks, surface, reiter>>

\* ControlEvent::Reset => { field.0.write().step = 0; }
Reset ==
    /\ field' = [field EXCEPT !.step = 0]
    /\ stale' = (stale \/ steps > 0)
    /\ UNCHANGED <<auto, pc, shared, copy, old_config, log, seen, lost, shown,
                   published>>
    /\ UNCHANGED <<contour, locks, surface, reiter>>

\* The Pause / Resume button: field.is_running = !field.is_running
ToggleRunning ==
    /\ field' = [field EXCEPT !.is_running = ~field.is_running]
    /\ UNCHANGED <<auto, pc, shared, copy, old_config, log, seen, stale, lost,
                   shown, published>>
    /\ UNCHANGED <<contour, locks, surface, reiter>>

\* egui::Slider::new(&mut config.0.write().rho, 0.0..=1.0)
SlideRho ==
    /\ \E v \in RhoSettings : shared' = [shared EXCEPT !.rho = v]
    /\ UNCHANGED <<auto, pc, copy, old_config, log, field, seen, stale, lost,
                   shown, published>>
    /\ UNCHANGED <<contour, locks, surface, reiter>>

\* egui::Slider::new(&mut config.0.write().beta, 1.0..=4.0)
SlideBeta ==
    /\ \E v \in BetaSettings : shared' = [shared EXCEPT !.beta = v]
    /\ UNCHANGED <<auto, pc, copy, old_config, log, field, seen, stale, lost,
                   shown, published>>
    /\ UNCHANGED <<contour, locks, surface, reiter>>

\* update_visualization: let field = field.0.read(); ... field.cells ...
UpdateVisualization ==
    /\ seen' = field.cells
    /\ UNCHANGED <<auto, pc, shared, copy, old_config, log, field, stale, lost,
                   shown, published>>
    /\ UNCHANGED <<contour, locks, surface, reiter>>

\* write_to_stl: cells_to_triangles(&field.0.read().cells, ...)
WriteToStl ==
    /\ seen' = field.cells
    /\ UNCHANGED <<auto, pc, shared, copy, old_config, log, field, stale, lost,
                   shown, published>>
    /\ UNCHANGED <<contour, locks, surface, reiter>>

\* setup: the worker's state is State::new(n, config.read().rho).
DriverSpecInit ==
    /\ InitState({MaxN - 1}, {DefaultConfig})
    /\ DriverInit
    /\ ContourIdle
    /\ SurfaceIdle
    /\ ReiterIdle

DriverNext ==
    \/ CopyConfig
    \/ CheckReset
    \/ ClearAndRebuild
    \/ PublishSeed
    \/ CheckRunning
    \/ CheckChanged
    \/ Record
    \/ WorkerStep
    \/ Reset
    \/ ToggleRunning
    \/ SlideRho
    \/ SlideBeta
    \/ UpdateVisualization
    \/ WriteToStl

DriverSpec == DriverSpecInit /\ [][DriverNext]_vars

\* ------------------------------------------------------------------------
\* The threaded driver at its lock operations. Every read() and write() of the
\* code is a step that takes the lock, followed by a step that uses the guard
\* and drops it. The values that decide a branch (field.step,
\* field.is_running, the parameter sets) are followed; the lattice, the log's
\* records and the snapshots decide none and stay as they are here.
\* ------------------------------------------------------------------------

\* The locks process p holds.
HeldBy(p) == {l \in Locks : held[l].writer = p \/ p \in held[l].readers}

\* RwLock::read returns when no writer holds the lock.
CanRead(l) == held[l].writer = "none"

\* RwLock::write returns when nobody holds the lock.
CanWrite(l) == held[l].writer = "none" /\ held[l].readers = {}

\* Process p, standing at `from`, takes lock l in the given mode and stands
\* at `to` with the guard.
TakeTo(p, from, l, mode, to) ==
    /\ standing[p] = from
    /\ IF mode = "read" THEN CanRead(l) ELSE CanWrite(l)
    /\ held' = [held EXCEPT ![l] =
                   IF mode = "read"
                     THEN [writer |-> "none", readers |-> held[l].readers \cup {p}]
                     ELSE [writer |-> p, readers |-> {}]]
    /\ nested' = nested \cup {<<h, l>> : h \in HeldBy(p)}
    /\ standing' = [standing EXCEPT ![p] = to]

\* The read() and write() calls of the code: who makes the call, standing
\* where, on which lock, in which mode, and where the call returns.
Wanted ==
       <<"worker", "copy">> :> [lock |-> "config", mode |-> "read", to |-> "copying"]
    @@ <<"worker", "reset?">> :> [lock |-> "field", mode |-> "read", to |-> "testing"]
    @@ <<"worker", "clear">> :> [lock |-> "log", mode |-> "write", to |-> "clearing"]
    @@ <<"worker", "publish">> :> [lock |-> "field", mode |-> "write", to |-> "publishing"]
    @@ <<"worker", "running?">> :> [lock |-> "field", mode |-> "read", to |-> "polling"]
    @@ <<"worker", "zero?">> :> [lock |-> "field", mode |-> "read", to |-> "zeroing"]
    @@ <<"worker", "info">> :> [lock |-> "field", mode |-> "read", to |-> "informing"]
    @@ <<"worker", "record">> :> [lock |-> "log", mode |-> "write", to |-> "recording"]
    @@ <<"worker", "recording">> :> [lock |-> "field", mode |-> "read", to |-> "pushing"]
    @@ <<"worker", "step">> :> [lock |-> "field", mode |-> "write", to |-> "stepping"]
    @@ <<"listener", "reset">> :> [lock |-> "field", mode |-> "write", to |-> "resetting"]
    @@ <<"listener", "save">> :> [lock |-> "log", mode |-> "read", to |-> "saving"]
    @@ <<"ui", "slide">> :> [lock |-> "config", mode |-> "write", to |-> "sliding"]
    @@ <<"button", "toggle">> :> [lock |-> "field", mode |-> "write", to |-> "toggling"]
    @@ <<"vis", "read">> :> [lock |-> "field", mode |-> "read", to |-> "reading"]
    @@ <<"stl", "read">> :> [lock |-> "field", mode |-> "read", to |-> "reading"]

\* Process p, standing at `from`, makes the call listed there.
Take(p, from) ==
    LET call == Wanted[<<p, from>>]
    IN  TakeTo(p, from, call.lock, call.mode, call.to)

\* Process p, standing at `from`, drops its guards of the locks ls and stands
\* at `to`.
Drop(p, from, ls, to) ==
    /\ standing[p] = from
    /\ held' = [l \in Locks |->
                   IF l \in ls
                     THEN [writer |-> IF held[l].writer = p THEN "none" ELSE held[l].writer,
                           readers |-> held[l].readers \ {p}]
                     ELSE held[l]]
    /\ standing' = [standing EXCEPT ![p] = to]
    /\ UNCHANGED nested

\* Process p moves on without touching a lock.
Move(p, from, to) ==
    /\ standing[p] = from
    /\ standing' = [standing EXCEPT ![p] = to]
    /\ UNCHANGED <<held, nested>>

\* What no step of this specification changes.
Untouched == <<auto, contour, surface, reiter, pc, log, seen, stale, lost, shown,
               published>>

\* let config = *config.read();
LockConfig ==
    /\ Take("worker", "copy")
    /\ UNCHANGED <<Untouched, shared, copy, old_config, field>>

CopyConfigLocked ==
    /\ Drop("worker", "copying", {"config"}, "reset?")
    /\ copy' = shared
    /\ UNCHANGED <<Untouched, shared, old_config, field>>

\* if field.read().step == 0 {
LockFieldForReset ==
    /\ Take("worker", "reset?")
    /\ UNCHANGED <<Untouched, shared, copy, old_config, field>>

CheckResetLocked ==
    /\ Drop("worker", "testing", {"field"},
            IF field.step = 0 THEN "clear" ELSE "running?")
    /\ UNCHANGED <<Untouched, shared, copy, old_config, field>>

\* log.write().clear(); state = State::new(n, config.rho);
LockLogForClear ==
    /\ Take("worker", "clear")
    /\ UNCHANGED <<Untouched, shared, copy, old_config, field>>

ClearLocked ==
    /\ Drop("worker", "clearing", {"log"}, "publish")
    /\ UNCHANGED <<Untouched, shared, copy, old_config, field>>

\* field.write().cells = ...
LockFieldForSeed ==
    /\ Take("worker", "publish")
    /\ UNCHANGED <<Untouched, shared, copy, old_config, field>>

PublishSeedLocked ==
    /\ Drop("worker", "publishing", {"field"}, "running?")
    /\ UNCHANGED <<Untouched, shared, copy, old_config, field>>

\* if !field.read().is_running { continue; }
LockFieldForRunning ==
    /\ Take("worker", "running?")
    /\ UNCHANGED <<Untouched, shared, copy, old_config, field>>

CheckRunningLocked ==
    /\ Drop("worker", "polling", {"field"},
            IF field.is_running THEN "changed?" ELSE "copy")
    /\ UNCHANGED <<Untouched, shared, copy, old_config, field>>

\* if old_config != config || ... : the right operand is not evaluated when
\* the left one holds.
CompareConfig ==
    /\ Move("worker", "changed?", IF old_config # copy THEN "info" ELSE "zero?")
    /\ UNCHANGED <<Untouched, shared, copy, old_config, field>>

\* ... || field.read().step == 0 {
LockFieldForZero ==
    /\ Take("worker", "zero?")
    /\ UNCHANGED <<Untouched, shared, copy, old_config, field>>

CheckZeroLocked ==
    /\ Drop("worker", "zeroing", {"field"},
            IF field.step = 0 THEN "info" ELSE "step")
    /\ UNCHANGED <<Untouched, shared, copy, old_config, field>>

\* tracing::info!("Step: {}, {config:?}", field.read().step);
LockFieldForInfo ==
    /\ Take("worker", "info")
    /\ UNCHANGED <<Untouched, shared, copy, old_config, field>>

InfoLocked ==
    /\ Drop("worker", "informing", {"field"}, "record")
    /\ UNCHANGED <<Untouched, shared, copy, old_config, field>>

\* log.write() ...
LockLogForRecord ==
    /\ Take("worker", "record")
    /\ UNCHANGED <<Untouched, shared, copy, old_config, field>>

\* ... .push(SimulationConfigLogRecord::new(field.read().step, &config)): the
\* argument is evaluated with the log's write guard alive.
LockFieldForRecord ==
    /\ Take("worker", "recording")
    /\ UNCHANGED <<Untouched, shared, copy, old_config, field>>

\* Both guards are dropped at the end of the statement; old_config = config;
RecordLocked ==
    /\ Drop("worker", "pushing", {"log", "field"}, "step")
    /\ old_config' = copy
    /\ UNCHANGED <<Untouched, shared, copy, field>>

\* A worker that takes the write guard and then reads field.step through the
\* lock for its message.
LockFieldForStepThenInfo ==
    /\ field.step < MaxRuns
    /\ TakeTo("worker", "step", "field", "write", "info")
    /\ UNCHANGED <<Untouched, shared, copy, old_config, field>>

\* let mut field = field.write();
LockFieldForStep ==
    /\ field.step < MaxRuns
    /\ Take("worker", "step")
    /\ UNCHANGED <<Untouched, shared, copy, old_config, field>>

\* field.step += 1; state.update(config); field.cells = ...; the guard is
\* dropped at the end of the loop body.
WorkerStepLocked ==
    /\ Drop("worker", "stepping", {"field"}, "copy")
    /\ field' = [field EXCEPT !.step = field.step + 1]
    /\ UNCHANGED <<Untouched, shared, copy, old_config>>

\* event_listener finds a ControlEvent::Reset or a ControlEvent::Save.
EventArrives ==
    /\ \E event \in {"reset", "save"} : Move("listener", "idle", event)
    /\ UNCHANGED <<Untouched, shared, copy, old_config, field>>

\* field.0.write().step = 0;
LockFieldForEvent ==
    /\ Take("listener", "reset")
    /\ UNCHANGED <<Untouched, shared, copy, old_config, field>>

ResetLocked ==
    /\ Drop("listener", "resetting", {"field"}, "idle")
    /\ field' = [field EXCEPT !.step = 0]
    /\ UNCHANGED <<Untouched, shared, copy, old_config>>

\* log.0.read().save_to_csv(*now): the guard lives through the match.
LockLogForSave ==
    /\ Take("listener", "save")
    /\ UNCHANGED <<Untouched, shared, copy, old_config, field>>

SaveLocked ==
    /\ Drop("listener", "saving", {"log"}, "idle")
    /\ UNCHANGED <<Untouched, shared, copy, old_config, field>>

\* configure_ui comes to a slider.
SliderShown ==
    /\ Move("ui", "idle", "slide")
    /\ UNCHANGED <<Untouched, shared, copy, old_config, field>>

\* egui::Slider::new(&mut config.0.write().rho, ..): one write guard per slider.
LockConfigForSlider ==
    /\ Take("ui", "slide")
    /\ UNCHANGED <<Untouched, shared, copy, old_config, field>>

SlideLocked ==
    /\ Drop("ui", "sliding", {"config"}, "idle")
    /\ \E v \in RhoSettings \cup {shared.rho} : shared' = [shared EXCEPT !.rho = v]
    /\ UNCHANGED <<Untouched, copy, old_config, field>>

\* The Pause / Resume button is pressed.
ButtonPressed ==
    /\ Move("button", "idle", "toggle")
    /\ UNCHANGED <<Untouched, shared, copy, old_config, field>>

LockFieldForToggle ==
    /\ Take("button", "toggle")
    /\ UNCHANGED <<Untouched, shared, copy, old_config, field>>

ToggleLocked ==
    /\ Drop("button", "toggling", {"field"}, "idle")
    /\ field' = [field EXCEPT !.is_running = ~field.is_running]
    /\ UNCHANGED <<Untouched, shared, copy, old_config>>

\* update_visualization and write_to_stl are called.
ReaderCalled ==
    /\ \E p \in {"vis", "stl"} : Move(p, "idle", "read")
    /\ UNCHANGED <<Untouched, shared, copy, old_config, field>>

\* let field = field.0.read(); / &field.0.read().cells
LockFieldForReader ==
    /\ \E p \in {"vis", "stl"} : Take(p, "read")
    /\ UNCHANGED <<Untouched, shared, copy, old_config, field>>

ReaderLocked ==
    /\ \E p \in {"vis", "stl"} : Drop(p, "reading", {"field"}, "idle")
    /\ UNCHANGED <<Untouched, shared, copy, old_config, field>>

LockNext ==
    \/ LockConfig
    \/ CopyConfigLocked
    \/ LockFieldForReset
    \/ CheckResetLocked
    \/ LockLogForClear
    \/ ClearLocked
    \/ LockFieldForSeed
    \/ PublishSeedLocked
    \/ LockFieldForRunning
    \/ CheckRunningLocked
    \/ CompareConfig
    \/ LockFieldForZero
    \/ CheckZeroLocked
    \/ LockFieldForInfo
    \/ InfoLocked
    \/ LockLogForRecord
    \/ LockFieldForRecord
    \/ RecordLocked
    \/ LockFieldForStep
    \/ WorkerStepLocked
    \/ EventArrives
    \/ LockFieldForEvent
    \/ ResetLocked
    \/ LockLogForSave
    \/ SaveLocked
    \/ SliderShown
    \/ LockConfigForSlider
    \/ SlideLocked
    \/ ButtonPressed
    \/ LockFieldForToggle
    \/ ToggleLocked
    \/ ReaderCalled
    \/ LockFieldForReader
    \/ ReaderLocked

LockSpec == DriverSpecInit /\ [][LockNext]_vars

\* ------------------------------------------------------------------------
\* extract_contours (utils.rs; simulation.rs holds the same function)
\* ------------------------------------------------------------------------

\* let directions = [(1, 1), (0, 2), (-1, 1), (-1, -1), (0, -2), (1, -1)];
Directions ==
    << <<1, 1>>, <<0, 2>>, <<-1, 1>>, <<-1, -1>>, <<0, -2>>, <<1, -1>> >>

\* Vertex k (0..5) of the hexagon of cell (i, j):
\* (2 * i + j + directions[k].0, 3 * j + directions[k].1)
Vertex(i, j, k) ==
    <<2 * i + j + Directions[k + 1][1], 3 * j + Directions[k + 1][2]>>

\* segments.insert(start, end): the entry of key start is replaced.
Insert(segs, start, end) ==
    {e \in segs : e[1] # start} \cup {<<start, end>>}

\* segments.remove(&key)
Remove(segs, key) ==
    {e \in segs : e[1] # key}

\* An edge emission that never looks for the reverse edge.
EmitEdgeNoCancel(segs, start, end) ==
    Insert(segs, start, end)

\* if let Some(&reverse_start) = segments.get(&end) { if reverse_start == start
\* { segments.remove(&end) } else { segments.insert(start, end) } } else
\* { segments.insert(start, end) }. An insert replaces the entry of its key.
EmitEdge(segs, start, end) ==
    IF <<end, start>> \in segs
    THEN Remove(segs, end)
    ELSE Insert(segs, start, end)

\* for (k, &(di, dj)) in directions.iter().enumerate(): edges k, k + 1, ... , 5
\* of cell (i, j), in this order.
RECURSIVE EmitCell(_, _, _, _)
EmitCell(segs, i, j, k) ==
    IF k > 5 THEN segs
    ELSE LET next == Collect(EmitEdge(segs, Vertex(i, j, k),
                                      Vertex(i, j, (k + 1) % 6)))
         IN  IF next = {} THEN EmitCell({}, i, j, k + 1)
             ELSE EmitCell(next, i, j, k + 1)

RECURSIVE EmitGrid(_, _, _, _)
RECURSIVE EmitGridBackwards(_, _, _, _)

\* The emission loop visiting the cells in reverse row-major order.
EmitGridBackwards(segs, g, m, p) ==
    IF p >= m * m THEN segs
    ELSE LET i == (m * m - 1 - p) \div m
             j == (m * m - 1 - p) % m
             next == IF g[<<i, j>>] THEN EmitCell(segs, i, j, 0) ELSE segs
         IN  IF next = {} THEN EmitGridBackwards({}, g, m, p + 1)
             ELSE EmitGridBackwards(next, g, m, p + 1)

\* grid.indexed_iter().for_each(...): the cells from index p on, in row-major
\* order (index p is cell (p / m, p % m)); false cells emit nothing.
EmitGrid(segs, g, m, p) ==
    IF p >= m * m THEN segs
    ELSE LET i == p \div m
             j == p % m
             next == IF g[<<i, j>>] THEN EmitCell(segs, i, j, 0) ELSE segs
         IN  IF next = {} THEN EmitGrid({}, g, m, p + 1)
             ELSE EmitGrid(next, g, m, p + 1)

RECURSIVE Walk(_, _, _)
RECURSIVE WalkStopsEarly(_, _, _)

\* A walk that stops one vertex before the loop closes.
WalkStopsEarly(segs, current, walked) ==
    IF \E e \in segs : e[1] = current /\ (\E f \in segs : f[1] = e[2])
    THEN LET e == CHOOSE e \in segs : e[1] = current
         IN  WalkStopsEarly(Remove(segs, current), e[2], Append(walked, e[2]))
    ELSE [contour |-> walked, segments |-> {e \in segs : e[1] # current}]

\* while let Some(&next) = segments.get(&current) { contour.push(next);
\* segments.remove(&current); current = next; }
Walk(segs, current, walked) ==
    IF \E e \in segs : e[1] = current
    THEN LET e == CHOOSE e \in segs : e[1] = current
         IN  Walk(Remove(segs, current), e[2], Append(walked, e[2]))
    ELSE [contour |-> walked, segments |-> segs]

\* The vertex order used to name keys of the map.
Before(v, w) == v[1] < w[1] \/ (v[1] = w[1] /\ v[2] < w[2])

\* segments.keys().next(): the map's first key in its hash order, which one
\* call's hasher fixes. Ascending and descending vertex order stand for the
\* orders a hasher can produce.
FirstKey(segs, ascending) ==
    LET first == CHOOSE e \in segs :
                     \A f \in segs : \/ f[1] = e[1]
                                      \/ IF ascending THEN Before(e[1], f[1])
                                                       ELSE Before(f[1], e[1])
    IN  first[1]

\* while !segments.is_empty() { let start = *segments.keys().next().unwrap();
\* let mut contour = vec![start]; ... contours.push(contour); }
RECURSIVE WalkAll(_, _, _)
WalkAll(segs, ascending, walked) ==
    IF segs = {} THEN walked
    ELSE LET start == FirstKey(segs, ascending)
             w == Walk(segs, start, <<start>>)
             rest == Collect(w.segments)
         IN  IF rest = {} THEN Append(walked, w.contour)
             ELSE WalkAll(rest, ascending, Append(walked, w.contour))

\* Callers pass scale 1.0.
Scale == IntToF(1)

\* 3.0f32.sqrt()
Sqrt3 == Lit(17321, 10000)

\* (scale * x as f32 / 2.0, scale * y as f32 / 2.0 / 3.0f32.sqrt())
ToPoint(v) ==
    <<FDiv(FMul(Scale, IntToF(v[1])), IntToF(2)),
      FDiv(FDiv(FMul(Scale, IntToF(v[2])), IntToF(2)), Sqrt3)>>

\* extract_contours(&grid, 1.0) is called on a mask of side 1..MaxGrid with at
\* most MaxTrue true cells or at most MaxFalse false cells.
ContourInit ==
    /\ InitState({1}, {DefaultConfig})
    /\ DriverInit
    /\ gn \in 1 .. MaxGrid
    /\ grid \in {g \in [Cells(gn) -> BOOLEAN] :
                    \/ Cardinality({x \in Cells(gn) : g[x]}) <= MaxTrue
                    \/ Cardinality({x \in Cells(gn) : ~g[x]}) <= MaxFalse}
    /\ segments = {}
    /\ contours = << >>
    /\ outline = << >>
    /\ cpc = "emit"
    /\ SurfaceIdle
    /\ ReiterIdle

\* grid.indexed_iter().for_each(|((i, j), v)| { if *v { ... } });
Emit ==
    /\ cpc = "emit"
    /\ segments' = EmitGrid(segments, grid, gn, 0)
    /\ cpc' = "walk"
    /\ UNCHANGED <<auto, driver, locks, surface, reiter, grid, gn, contours, outline>>

\* The walking loop, run until the map is empty.
WalkContours ==
    /\ cpc = "walk"
    /\ segments # {}
    /\ \E ascending \in BOOLEAN :
         contours' = WalkAll(segments, ascending, << >>)
    /\ segments' = {}
    /\ UNCHANGED <<auto, driver, locks, surface, reiter, grid, gn, outline, cpc>>

\* contours.into_iter().map(|contour| contour.into_iter().map(...).collect())
\* .collect()
Return ==
    /\ cpc = "walk"
    /\ segments = {}
    /\ outline' = [c \in DOMAIN contours |->
                     [k \in DOMAIN contours[c] |-> ToPoint(contours[c][k])]]
    /\ cpc' = "done"
    /\ UNCHANGED <<auto, driver, locks, surface, reiter, grid, gn, segments, contours>>

ContourNext ==
    \/ Emit
    \/ WalkContours
    \/ Return

ContourSpec == ContourInit /\ [][ContourNext]_vars

\* ------------------------------------------------------------------------
\* cells_to_triangles (stl.rs): the boundary edges of the triangulated surface
\* and the walk along them. The facets it pushes are not followed.
\* ------------------------------------------------------------------------

\* Corner k (0..2) of triangle t of the square at (i, j), with
\* directions0 = [(0, 0), (1, 0), (0, 1)] and directions1 = [(1, 0), (1, 1), (0, 1)].
Corner(i, j, t, k) ==
    LET directions0 == << <<0, 0>>, <<1, 0>>, <<0, 1>> >>
        directions1 == << <<1, 0>>, <<1, 1>>, <<0, 1>> >>
        d == IF t = 0 THEN directions0[k + 1] ELSE directions1[k + 1]
    IN  <<i + d[1], j + d[2]>>

\* if cells[[i, j]] > 0.0 && cells[[i1, j]] > 0.0 && cells[[i, j1]] > 0.0, and
\* if cells[[i1, j]] > 0.0 && cells[[i1, j1]] > 0.0 && cells[[i, j1]] > 0.0
HasTriangle(h, i, j, t) ==
    \A k \in 0 .. 2 : h[Corner(i, j, t, k)] > 0

\* segments.entry(start).or_default().insert(end)
Put(m, start, end) ==
    [v \in DOMAIN m \cup {start} |->
        IF v \in DOMAIN m
          THEN IF v = start THEN m[v] \cup {end} ELSE m[v]
          ELSE {end}]

\* An emission that leaves the emptied set of ends in the map.
EmitSegmentKeepsEmpty(m, start, end) ==
    IF end \in DOMAIN m
      THEN IF start \in m[end]
             THEN [m EXCEPT ![end] = m[end] \ {start}]
             ELSE Put(m, start, end)
      ELSE Put(m, start, end)

\* if let Some(end_set) = segments.get_mut(&end) { if !end_set.remove(&start)
\* { insert } else if end_set.is_empty() { segments.remove(&end); } } else
\* { insert }
EmitSegment(m, start, end) ==
    IF end \in DOMAIN m
      THEN IF start \in m[end]
             THEN IF m[end] = {start}
                    THEN [v \in DOMAIN m \ {end} |-> m[v]]
                    ELSE [m EXCEPT ![end] = m[end] \ {start}]
             ELSE Put(m, start, end)
      ELSE Put(m, start, end)

\* for k in 0..3 { ... }: the edges k, k + 1, ... of triangle t.
RECURSIVE EmitTriangle(_, _, _, _, _)
EmitTriangle(m, i, j, t, k) ==
    IF k > 2 THEN m
    ELSE LET next == Collect(EmitSegment(m, Corner(i, j, t, k),
                                         Corner(i, j, t, (k + 1) % 3)))
         IN  IF next = m THEN EmitTriangle(m, i, j, t, k + 1)
             ELSE EmitTriangle(next, i, j, t, k + 1)

\* for i in 0..(n - 1) { for j in 0..(n - 1) { ... } }: the squares from index
\* p on (index p is the square at (p / (n - 1), p % (n - 1))), each with its
\* two triangles.
RECURSIVE EmitSquares(_, _, _, _)
EmitSquares(m, h, side, p) ==
    IF p >= (side - 1) * (side - 1) THEN m
    ELSE LET i == p \div (side - 1)
             j == p % (side - 1)
             lower == Collect(IF HasTriangle(h, i, j, 0)
                                THEN EmitTriangle(m, i, j, 0, 0) ELSE m)
             upper == Collect(IF HasTriangle(h, i, j, 1)
                                THEN EmitTriangle(lower, i, j, 1, 0) ELSE lower)
         IN  IF upper = m THEN EmitSquares(m, h, side, p + 1)
             ELSE EmitSquares(upper, h, side, p + 1)

\* The vertex the walk stands at: the last one of the contour being walked.
Current == traced[Len(traced)][Len(traced[Len(traced)])]

\* The first key of the map in its hash order (see FirstKey).
FirstStart(m, ascending) ==
    CHOOSE v \in DOMAIN m :
        \A w \in DOMAIN m : \/ w = v
                             \/ IF ascending THEN Before(v, w) ELSE Before(w, v)

\* cells_to_triangles is called on an array of side 1..MaxGrid whose cells hold
\* 0.0 or 1.0, with at most MaxTrue cells above 0.0 or at most MaxFalse not.
SurfaceInit ==
    /\ InitState(1 .. MaxGrid, {DefaultConfig})
    /\ DriverInit
    /\ ContourIdle
    /\ ReiterIdle
    /\ cells \in {h \in [Cells(n) -> {0, IntToF(1)}] :
                     \/ Cardinality({x \in Cells(n) : h[x] > 0}) <= MaxTrue
                     \/ Cardinality({x \in Cells(n) : ~(h[x] > 0)}) <= MaxFalse}
    /\ ends = << >>
    /\ traced = << >>
    /\ spc = "emit"
    /\ warnings = 0

\* The loop over the squares.
EmitSurface ==
    /\ spc = "emit"
    /\ ends' = EmitSquares(<< >>, cells, n, 0)
    /\ spc' = "pick"
    /\ UNCHANGED <<auto, driver, contour, locks, reiter, cells, traced, warnings>>

\* while !segments.is_empty() { let start = *segments.keys().next().unwrap();
\* let mut contour = vec![start]; let mut current = start;
PickStart ==
    /\ spc = "pick"
    /\ DOMAIN ends # {}
    /\ \E ascending \in BOOLEAN :
         traced' = Append(traced, <<FirstStart(ends, ascending)>>)
    /\ spc' = "follow"
    /\ UNCHANGED <<auto, driver, contour, locks, reiter, cells, ends, warnings>>

\* while let Some(next_set) = segments.get_mut(&current) { if next_set.len() != 1
\* { warn } let next = *next_set.iter().next().unwrap(); contour.push(next);
\* segments.remove(&current); current = next; }: one turn of the loop. The
\* unwrap panics on an empty set; the set's first element is any of its
\* elements.
Follow ==
    /\ spc = "follow"
    /\ Current \in DOMAIN ends
    /\ warnings' = IF Cardinality(ends[Current]) # 1 THEN warnings + 1 ELSE warnings
    /\ IF ends[Current] = {}
         THEN spc' = "abort" /\ UNCHANGED <<ends, traced>>
         ELSE /\ \E next \in ends[Current] :
                   traced' = [traced EXCEPT ![Len(traced)] = Append(@, next)]
              /\ ends' = [v \in DOMAIN ends \ {Current} |-> ends[v]]
              /\ spc' = "follow"
    /\ UNCHANGED <<auto, driver, contour, locks, reiter, cells>>

\* The inner loop ends where the map has no entry: contours.push(contour); }
EndContour ==
    /\ spc = "follow"
    /\ Current \notin DOMAIN ends
    /\ spc' = "pick"
    /\ UNCHANGED <<auto, driver, contour, locks, reiter, cells, ends, traced, warnings>>

\* The outer loop ends with the map empty.
EndWalk ==
    /\ spc = "pick"
    /\ DOMAIN ends = {}
    /\ spc' = "done"
    /\ UNCHANGED <<auto, driver, contour, locks, reiter, cells, ends, traced, warnings>>

SurfaceNext ==
    \/ EmitSurface
    \/ PickStart
    \/ Follow
    \/ EndContour
    \/ EndWalk

SurfaceSpec == SurfaceInit /\ [][SurfaceNext]_vars

\* ------------------------------------------------------------------------
\* The Reiter variant (reiter.rs; simulation.rs holds the same init_grid and
\* update_grid): one scalar field s, frozen where s >= 1.0.
\* ------------------------------------------------------------------------

\* Most update_grid calls applied to one grid of init_grid.
MaxTicks == 2

\* Largest side of the Reiter lattice.
MaxSide == 4

\* The slider positions tried: alpha in 0.0..=2.0, beta in 0.0..=1.0 (the
\* last one is the largest value below 1.0), gamma in 0.0..=1.0. The defaults
\* are alpha 0.502, beta 0.4 and gamma 0.0001, which is below the model's
\* smallest step.
Sliders ==
    [alpha |-> {0, Lit(502, 1000), IntToF(2)},
     beta  |-> {0, Lit(4, 10), Unit - Ulp(Unit - 1, 1)},
     gamma |-> {Lit(1, 10000), Lit(3, 10), IntToF(1)}]

\* The arguments a caller of init_grid and update_grid may pass: the slider
\* positions, and with them an alpha of 1.1, a beta of 0.9 and a gamma below
\* zero.
Arguments ==
    [alpha |-> Sliders.alpha \cup {Lit(11, 10)},
     beta  |-> Sliders.beta \cup {Lit(9, 10)},
     gamma |-> Sliders.gamma \cup {Lit(-65, 1000)}]

\* let mut s = Array2::<f32>::ones((n, n)) * beta; s[[n / 2, n / 2]] = 1.0;
init_grid(side, beta) ==
    [x \in Cells(side) |->
        IF x = Seed(side) THEN IntToF(1) ELSE FMul(IntToF(1), beta)]

\* update_grid with Rule 1 taking gamma away.
update_grid_melting(side, s, gamma, alpha) ==
    LET one == IntToF(1)
        receptive == [x \in Cells(side) |->
            \/ s[x] >= one
            \/ \E k \in 1 .. 6 : s[Nbr(x, side)[k]] >= one]
        u0 == [x \in Cells(side) |-> IF receptive[x] THEN 0 ELSE s[x]]
        v0 == [x \in Cells(side) |-> IF receptive[x] THEN s[x] ELSE 0]
        cell(x) ==
            LET v1 == IF receptive[x] THEN FSub(v0[x], gamma) ELSE v0[x]
                y == Nbr(x, side)
                sum == FAdd(FAdd(FAdd(FAdd(FAdd(FAdd(0, u0[y[1]]), u0[y[2]]),
                                           u0[y[3]]), u0[y[4]]), u0[y[5]]), u0[y[6]])
                u0_neighbors == FDiv(sum, IntToF(6))
                u1 == FAdd(u0[x], FDiv(FMul(alpha, FSub(u0_neighbors, u0[x])),
                                       IntToF(2)))
            IN  FAdd(u1, v1)
    IN  Collect([x \in Cells(side) |-> cell(x)])

\* `combined` holds (receptive, (u0, v0)) of every cell of the grid as it was;
\* every cell then becomes u1 + v1, with v1 = v0 + gamma where receptive
\* (Rule 1) and u1 = u0 + alpha * (u0_neighbors - u0) / 2.0 (Rule 2), where
\* u0_neighbors is the sum, from 0.0, of the six neighbours' u0 in the order
\* (1,0), (-1,0), (0,1), (0,-1), (-1,1), (1,-1), divided by 6.0.
update_grid(side, s, gamma, alpha) ==
    LET one == IntToF(1)
        receptive == [x \in Cells(side) |->
            \/ s[x] >= one
            \/ \E k \in 1 .. 6 : s[Nbr(x, side)[k]] >= one]
        u0 == [x \in Cells(side) |-> IF receptive[x] THEN 0 ELSE s[x]]
        v0 == [x \in Cells(side) |-> IF receptive[x] THEN s[x] ELSE 0]
        cell(x) ==
            LET v1 == IF receptive[x] THEN FAdd(v0[x], gamma) ELSE v0[x]
                y == Nbr(x, side)
                sum == FAdd(FAdd(FAdd(FAdd(FAdd(FAdd(0, u0[y[1]]), u0[y[2]]),
                                           u0[y[3]]), u0[y[4]]), u0[y[5]]), u0[y[6]])
                u0_neighbors == FDiv(sum, IntToF(6))
                u1 == FAdd(u0[x], FDiv(FMul(alpha, FSub(u0_neighbors, u0[x])),
                                       IntToF(2)))
            IN  FAdd(u1, v1)
    IN  Collect([x \in Cells(side) |-> cell(x)])

\* ReiterField::new(n) with Default of SimulationConfig, then init_simulation:
\* field.init(config.beta); field.is_running = true.
ReiterInit ==
    /\ InitState(1 .. MaxSide, {DefaultConfig})
    /\ DriverInit
    /\ ContourIdle
    /\ SurfaceIdle
    /\ reiter_config = [alpha |-> Lit(502, 1000), beta |-> Lit(4, 10),
                        gamma |-> Lit(1, 10000)]
    /\ reiter_field = [cells |-> init_grid(n, Lit(4, 10)), step |-> 0,
                       is_running |-> TRUE]

\* update_simulation: if field.is_running { field.update(config.alpha,
\* config.gamma) }, which is update_grid and step += 1.
update_simulation ==
    /\ reiter_field.is_running
    /\ reiter_field.step < MaxTicks
    /\ reiter_field' = [reiter_field EXCEPT
            !.cells = update_grid(n, @, reiter_config.gamma, reiter_config.alpha),
            !.step = @ + 1]
    /\ UNCHANGED <<auto, driver, contour, locks, surface, reiter_config>>

\* configure_ui, one widget used in a frame: a slider moved, or Pause/Resume
\* clicked, or Reset clicked (field.init(config.beta); is_running = true).
\* Save writes a file and changes nothing here.
configure_ui ==
    /\ \/ /\ \E alpha \in Sliders.alpha :
                 reiter_config' = [reiter_config EXCEPT !.alpha = alpha]
          /\ UNCHANGED reiter_field
       \/ /\ \E beta \in Sliders.beta :
                 reiter_config' = [reiter_config EXCEPT !.beta = beta]
          /\ UNCHANGED reiter_field
       \/ /\ \E gamma \in Sliders.gamma :
                 reiter_config' = [reiter_config EXCEPT !.gamma = gamma]
          /\ UNCHANGED reiter_field
       \/ /\ reiter_field' = [reiter_field EXCEPT !.is_running = ~@]
          /\ UNCHANGED reiter_config
       \/ /\ reiter_field' = [reiter_field EXCEPT
                  !.cells = init_grid(n, reiter_config.beta),
                  !.step = 0,
                  !.is_running = TRUE]
          /\ UNCHANGED reiter_config
    /\ UNCHANGED <<auto, driver, contour, locks, surface>>

ReiterNext ==
    \/ update_simulation
    \/ configure_ui

ReiterSpec == ReiterInit /\ [][ReiterNext]_vars

\* init_grid and update_grid as functions of their arguments: a grid of
\* init_grid(n, beta), for any beta of Arguments.
GridInit ==
    /\ InitState(1 .. MaxSide, {DefaultConfig})
    /\ DriverInit
    /\ ContourIdle
    /\ SurfaceIdle
    /\ \E beta \in Arguments.beta :
         /\ reiter_config = [alpha |-> Lit(502, 1000), beta |-> beta,
                             gamma |-> Lit(1, 10000)]
         /\ reiter_field = [cells |-> init_grid(n, beta), step |-> 0,
                            is_running |-> TRUE]

\* update_grid(n, &mut cells, gamma, alpha) called on the grid with any gamma
\* and alpha of Arguments.
GridNext ==
    /\ reiter_field.step < MaxTicks
    /\ \E alpha \in Arguments.alpha, gamma \in Arguments.gamma :
         /\ reiter_config' = [reiter_config EXCEPT !.alpha = alpha, !.gamma = gamma]
         /\ reiter_field' = [reiter_field EXCEPT
                !.cells = update_grid(n, @, gamma, alpha),
                !.step = @ + 1]
    /\ UNCHANGED <<auto, driver, contour, locks, surface>>

GridSpec == GridInit /\ [][GridNext]_vars

\* ------------------------------------------------------------------------
\* Properties of the automaton
\* ------------------------------------------------------------------------

\* Cell y is one of the six hexagonal neighbours of cell x on the m-torus.
Adjacent(x, y, m) ==
    \E o \in {<<1, 0>>, <<-1, 0>>, <<0, 1>>, <<0, -1>>, <<-1, 1>>, <<1, -1>>} :
        y = <<(x[1] + o[1] + m) % m, (x[2] + o[2] + m) % m>>

\* Number of ice cells of mask a among the six neighbours of x.
IceNeighbours(a, x, m) ==
    LET o == << <<1, 0>>, <<-1, 0>>, <<0, 1>>, <<0, -1>>, <<-1, 1>>, <<1, -1>> >>
        at(k) == <<(x[1] + o[k][1] + m) % m, (x[2] + o[k][2] + m) % m>>
    IN  Cardinality({k \in 1 .. 6 : a[at(k)]})

\* Sum of f over the cells listed in the sequence cs.
RECURSIVE SumOver(_, _)
SumOver(f, cs) ==
    IF cs = << >> THEN 0 ELSE f[Head(cs)] + SumOver(f, Tail(cs))

\* The cells of the m-lattice, listed row by row.
CellSeq(m) == [k \in 1 .. m * m |-> <<(k - 1) \div m, (k - 1) % m>>]

\* Lattice total of boundary_mass + crystal_mass + vapor_density, in steps.
TotalMass(s, m) ==
    SumOver([x \in Cells(m) |-> s.b[x] + s.c[x] + s.d[x]], CellSeq(m))

\* Lattice total of the magnitudes of the three quantities, in steps.
TotalMagnitude(s, m) ==
    SumOver([x \in Cells(m) |-> Abs(s.b[x]) + Abs(s.c[x]) + Abs(s.d[x])], CellSeq(m))

\* A cell that was not ice before the last update and is ice after it.
FrozeNow(x) == op = "update" /\ ~pre.a[x] /\ state.a[x]

\* C1. Ice monotonicity: every cell that was ice before an update is ice after
\* it, whatever the parameters.
C1_IceMonotone ==
    op = "update" => \A x \in Cells(n) : pre.a[x] => state.a[x]

\* C1 witness: an update has run over a frozen cell (not the seed) that has one
\* or two ice neighbours and less boundary mass than beta: the tip rule alone
\* would say "not ice".
C1_Witness ==
    /\ op = "update"
    /\ \E x \in Cells(n) :
         /\ x # <<n \div 2, n \div 2>>
         /\ pre.a[x] /\ state.a[x]
         /\ IceNeighbours(pre.a, x, n) \in 1 .. 2
         /\ pre.b[x] < used.beta

\* C2. In every state, after State::new and after every update, with the noise
\* stage on or off: an ice cell holds no vapour.
C2_IceHoldsNoVapor ==
    \A x \in Cells(n) : state.a[x] => state.d[x] = 0

\* C2 witness: a noisy update in which a cell that held vapour froze.
C2_Witness ==
    /\ op = "update"
    /\ Abs(used.sigma) > 0
    /\ \E x \in Cells(n) : FrozeNow(x) /\ pre.d[x] > 0 /\ state.d[x] = 0

\* C3. Boundary-only freezing: a cell that froze in the last update had an ice
\* neighbour in the mask the update started from.
C3_BoundaryOnlyFreezing ==
    \A x \in Cells(n) :
        FrozeNow(x) => \E y \in Cells(n) : Adjacent(x, y, n) /\ pre.a[y]

\* C3 witness: in the last update some cell froze, and another cell that had no
\* ice neighbour at the start has one at the end and is still not ice.
C3_Witness ==
    /\ \E x \in Cells(n) : FrozeNow(x)
    /\ \E z \in Cells(n) :
         /\ op = "update" /\ ~pre.a[z] /\ ~state.a[z]
         /\ IceNeighbours(pre.a, z, n) = 0
         /\ IceNeighbours(state.a, z, n) > 0

\* kappa, mu and gamma of the parameter set lie in their domain [0, 1].
RatesInRange(config) ==
    /\ 0 <= config.kappa /\ config.kappa <= IntToF(1)
    /\ 0 <= config.mu /\ config.mu <= IntToF(1)
    /\ 0 <= config.gamma /\ config.gamma <= IntToF(1)

\* C4 as stated. Mass accounting: with sigma = 0 the lattice total of
\* boundary_mass + crystal_mass + vapor_density after an update equals the
\* total before it.
C4_MassExact ==
    (op = "update" /\ used.sigma = 0)
        => TotalMass(state, n) = TotalMass(pre, n)

\* C4 as amended. With sigma = 0 and kappa, mu, gamma in [0, 1], the total after
\* an update differs from the total before it by rounding error only: by at
\* most 20 unit roundoffs (2^-MantBits; 2^-24 in an f32) of the total magnitude
\* before the update, plus 3 smallest steps per cell for results that underflow.
C4_MassWithinRounding ==
    (op = "update" /\ used.sigma = 0 /\ RatesInRange(used))
        => Abs(TotalMass(state, n) - TotalMass(pre, n)) * Mant
             <= 20 * TotalMagnitude(pre, n) + 3 * n * n * Mant

\* C4 witness: an update with in-range rates in which cells froze and others
\* melted, and whose total is not the total before it.
C4_Witness ==
    /\ op = "update" /\ used.sigma = 0 /\ RatesInRange(used)
    /\ \E x \in Cells(n) : FrozeNow(x)
    /\ \E x \in Cells(n) : ~state.a[x] /\ IceNeighbours(state.a, x, n) > 0
    /\ TotalMass(state, n) # TotalMass(pre, n)

\* The lattice's 60-degree rotation about the seed: offset (q, r) from the
\* centre goes to (-r, q + r), on the m-torus.
Rotate(x, m) ==
    LET q == x[1] - (m \div 2)
        r == x[2] - (m \div 2)
    IN  <<((m \div 2) - r + 2 * m) % m, ((m \div 2) + q + r + 2 * m) % m>>

\* C5 as stated. Six-fold symmetry: started from State::new and updated with
\* sigma = 0, the ice mask is invariant under the 60-degree rotation about the
\* seed.
C5_SixfoldSymmetry ==
    \A x \in Cells(n) : state.a[x] = state.a[Rotate(x, n)]

\* C6. Determinism: an update with sigma = 0 draws no coin array, and the state
\* it produces is the state every coin array would have given.
C6_Deterministic ==
    (op = "update" /\ used.sigma = 0)
        => /\ coins = << >>
           /\ \A f \in {[x \in Cells(n) |-> TRUE], [x \in Cells(n) |-> x[1] = x[2]]} :
                state = Update(pre, used, f, n)

\* C6 witness: an update with sigma = 0 that moved vapour and froze a cell.
C6_Witness ==
    /\ op = "update" /\ used.sigma = 0
    /\ \E x \in Cells(n) : FrozeNow(x)
    /\ \E x \in Cells(n) : state.d[x] # pre.d[x] /\ state.d[x] # 0

\* C7. Seed state: after State::new(n, rho), at start-up and at every rebuild,
\* the centre cell alone is ice, with crystal_mass 1 and no vapour; every other
\* cell holds vapour rho and no crystal mass; boundary_mass is 0 everywhere.
C7_SeedState ==
    op = "new" =>
        \A x \in Cells(n) :
            /\ state.a[x] = (x = <<n \div 2, n \div 2>>)
            /\ state.b[x] = 0
            /\ state.c[x] = IF x = <<n \div 2, n \div 2>> THEN Unit ELSE 0
            /\ state.d[x] = IF x = <<n \div 2, n \div 2>> THEN 0 ELSE used.rho

\* C7 witness: a rebuild of a state in which a cell other than the seed was ice
\* and boundary mass had accumulated, with a rho other than the vapour it held.
C7_Witness ==
    /\ op = "new"
    /\ \E x \in Cells(n) : x # <<n \div 2, n \div 2>> /\ pre.a[x]
    /\ \E x \in Cells(n) : pre.b[x] > 0 /\ pre.d[x] # used.rho

\* ------------------------------------------------------------------------
\* Properties of the threaded driver
\* ------------------------------------------------------------------------

\* C8 as stated. A reset is never lost: once a Reset has been processed for a
\* state that updates had advanced, the worker rebuilds the state from the seed
\* before it applies another update; no update is applied to the pre-reset
\* state.
C8_ResetNeverLost ==
    ~lost

\* What a snapshot of a whole state looks like: of a freshly seeded state, of
\* the worker's state, or of the state before the worker's last operation.
WholeSnapshots ==
    {[x \in Cells(n) |-> IF x = <<n \div 2, n \div 2>> THEN Unit ELSE 0],
     [x \in Cells(n) |-> IF state.a[x] THEN state.c[x] ELSE 0],
     [x \in Cells(n) |-> IF pre.a[x] THEN pre.c[x] ELSE 0]}

C10_StepCountsUpdates ==
    op = "update" => shown = steps

\* The stages of the last update, recomputed from the state it started from:
\* neighbors, d_new after Diffusion, (b_new, c_new, d_new) after Freezing and
\* (a_new, b_new, c_new) after Attachment.
LastNeighbors == Neighbors(pre.a, n)

LastDiffusion == Diffusion(pre.a, pre.d, LastNeighbors, n)

LastFreezing ==
    Freezing(pre.a, pre.b, pre.c, LastDiffusion, LastNeighbors, used.kappa, n)

LastAttachment ==
    Attachment(pre.a, LastFreezing.b, LastFreezing.c, LastFreezing.d,
               LastNeighbors, used.beta, used.alpha, used.theta, n)

\* Cell x was not ice and is ice in the mask a_new of the Attachment stage.
Attached(a_new, x) == ~pre.a[x] /\ a_new[x]

\* C15 as stated. Attachment never changes mass: for every cell the stage
\* leaves boundary_mass + crystal_mass unchanged; a cell that freezes gets
\* crystal_mass increased by its whole boundary_mass and boundary_mass 0, and a
\* cell that does not freeze keeps both values.
C15_AttachmentKeepsMass ==
    op = "update" =>
        LET frz == Collect(LastFreezing)
            att == Collect(LastAttachment)
        IN  \A x \in Cells(n) :
                /\ att.b[x] + att.c[x] = frz.b[x] + frz.c[x]
                /\ Attached(att.a, x) => att.b[x] = 0
                /\ ~Attached(att.a, x) => /\ att.b[x] = frz.b[x]
                                          /\ att.c[x] = frz.c[x]

\* C15 as amended. A cell that freezes gets crystal_mass replaced by the float
\* sum crystal_mass + boundary_mass and boundary_mass set to 0, so its
\* boundary_mass + crystal_mass moves by the rounding error of that one
\* addition at most (half the spacing of the floats at the sum); a cell that
\* does not freeze keeps both values exactly. The stage writes a_new, b_new and
\* c_new only: Melting reads the d_new that Freezing left.
C15_AttachmentKeepsMassRounded ==
    op = "update" =>
        LET frz == Collect(LastFreezing)
            att == Collect(LastAttachment)
        IN  \A x \in Cells(n) :
                /\ Attached(att.a, x) =>
                      /\ att.b[x] = 0
                      /\ att.c[x] = FAdd(frz.c[x], frz.b[x])
                      /\ 2 * Abs(att.c[x] - (frz.b[x] + frz.c[x]))
                           <= Ulp(Abs(frz.b[x] + frz.c[x]), 1)
                /\ ~Attached(att.a, x) => /\ att.b[x] = frz.b[x]
                                          /\ att.c[x] = frz.c[x]
                /\ state.a[x] = att.a[x]

\* In the last update one cell froze with a rounded sum and a boundary cell
\* with mass did not freeze.
C15_Witness ==
    /\ op = "update"
    /\ LET frz == Collect(LastFreezing)
           att == Collect(LastAttachment)
       IN  /\ \E x \in Cells(n) :
                /\ Attached(att.a, x)
                /\ frz.b[x] # 0
                /\ att.c[x] # frz.b[x] + frz.c[x]
           /\ \E x \in Cells(n) :
                /\ ~pre.a[x] /\ LastNeighbors[x] > 0 /\ ~Attached(att.a, x)
                /\ frz.b[x] # 0

\* The attachment rule for a cell with k ice neighbours, boundary mass bx after
\* Freezing and neighbour vapour sum dsum.
Rule(bx, k, dsum) ==
    \/ k \in {1, 2} /\ bx >= used.beta
    \/ k = 3 /\ (bx >= IntToF(1) \/ (bx >= used.alpha /\ dsum < used.theta))
    \/ k >= 4

\* C17: attachment decision. A non-ice cell with pre-step neighbour count
\* k > 0, boundary mass b after Freezing and S the sum (as the code adds it) of
\* the post-Freezing vapour of its 6 toroidal neighbours becomes ice in this
\* step if and only if (k in {1,2} and b >= beta) or (k = 3 and (b >= 1.0 or
\* (b >= alpha and S < theta))) or k >= 4.
C17_AttachmentDecision ==
    op = "update" =>
        LET neighbors == Collect(LastNeighbors)
            frz == Collect(LastFreezing)
        IN  \A x \in Cells(n) :
                (~pre.a[x] /\ neighbors[x] > 0) =>
                    (state.a[x] <=> Rule(frz.b[x], neighbors[x],
                                         NeighborVapor(frz.d, x, n)))

\* In the last update a cell with 3 ice neighbours froze on the alpha/theta
\* condition alone, and another boundary cell stayed as it was.
C17_Witness ==
    /\ op = "update"
    /\ \E x \in Cells(n) :
         /\ FrozeNow(x)
         /\ LastNeighbors[x] = 3
         /\ LastFreezing.b[x] < IntToF(1)
         /\ LastFreezing.b[x] >= used.alpha
         /\ NeighborVapor(LastFreezing.d, x, n) < used.theta
    /\ \E x \in Cells(n) :
         ~pre.a[x] /\ ~state.a[x] /\ LastNeighbors[x] > 0

\* C19: the fatal branch is unreachable. No update reaches the arm
\* `0 => panic!("not a boundary cell")`: every cell with neighbour count 0 has
\* returned before the match.
C19_NeverPanics ==
    /\ op # "panic"
    /\ op = "update" =>
          LET neighbors == Collect(LastNeighbors)
          IN  \A x \in Cells(n) :
                  neighbors[x] = 0 => ~Passes(pre.a[x], neighbors[x])

\* An update has run over non-ice cells with no ice neighbour and over a cell
\* that went on to the match.
C19_Witness ==
    /\ op = "update"
    /\ \E x \in Cells(n) : ~pre.a[x] /\ LastNeighbors[x] = 0
    /\ \E x \in Cells(n) : Passes(pre.a[x], LastNeighbors[x])

\* C18: simultaneous update. No stage reads a value another cell wrote in the
\* same stage, so an update that visits the cells one by one, in place, gives
\* the same state for every order of the cells; in particular the sequential
\* update of gravner_griffeath_wasm.rs and the parallel update map equal
\* states and parameters with sigma = 0 to equal states.
C18_OrderIndependent ==
    (op = "update" /\ used.sigma = 0) =>
        /\ UpdateSequential(pre, used, coins, n) = state
        /\ \A order \in Orders(n) : UpdateIn(pre, used, coins, order, n) = state

\* An update in which a cell froze next to a cell that stayed a boundary cell
\* and melted: a later cell's stage input differs from what an earlier cell
\* wrote.
C18_Witness ==
    /\ op = "update"
    /\ used.sigma = 0
    /\ n >= 3
    /\ \E x, y \in Cells(n) :
         /\ Adjacent(x, y, n)
         /\ FrozeNow(x)
         /\ ~pre.a[y] /\ ~state.a[y] /\ LastNeighbors[y] > 0
         /\ state.b[y] # LastFreezing.b[y]

\* The first update from State::new on the lattice of side ScenarioN, with
\* rho = 0.5 and the default parameters, has been made.
FirstScenarioUpdate ==
    /\ n = ScenarioN
    /\ op = "update"
    /\ used = DefaultConfig
    /\ pre = New(n, DefaultConfig.rho)

\* C14: n = 10, rho = 0.5, default parameters: in the first update from
\* State::new the cells with neighbour count 1 are exactly the six hex
\* neighbours of (5,5), every other non-seed cell has count 0, and Diffusion
\* leaves the vapor_density of every non-ice cell equal to rho.
C14_FirstUpdateScenario ==
    FirstScenarioUpdate =>
        LET neighbors == Neighbors(pre.a, n)
            d_new == Diffusion(pre.a, pre.d, neighbors, n)
            ring == {<<6, 5>>, <<4, 5>>, <<5, 6>>, <<5, 4>>, <<4, 6>>, <<6, 4>>}
        IN  /\ Seed(n) = <<5, 5>>
            /\ {x \in Cells(n) : neighbors[x] = 1} = ring
            /\ \A x \in Cells(n) \ (ring \cup {Seed(n)}) : neighbors[x] = 0
            /\ \A x \in Cells(n) : ~pre.a[x] => d_new[x] = DefaultConfig.rho

\* That update has been made and its vapour field differs from the seeded one.
C14_Witness ==
    /\ FirstScenarioUpdate
    /\ steps = 1
    /\ state.d # pre.d

----------------------------------------------------------------------------
\* Properties of extract_contours.

\* The true cells of the mask.
TrueCells == {x \in Cells(gn) : grid[x]}

\* The emission loop has run and the walk has not started.
Emitted == cpc = "walk" /\ contours = << >>

\* The points of a contour without its last one.
Vertices(c) == {c[k] : k \in 1 .. Len(c) - 1}

\* The directed edges a contour runs along.
ContourEdges(c) == {<<c[k], c[k + 1]>> : k \in 1 .. Len(c) - 1}

\* A contour that returns to its first point.
Closed(c) == Len(c) >= 2 /\ c[1] = c[Len(c)]

\* C11: for a mask with exactly one true cell, extract_contours returns exactly
\* one contour; it is closed (its last point repeats its first) and it consists
\* of 6 vertices, the corners of that cell's hexagon, so the returned polyline
\* has 7 points.
C11_SingleCellHexagon ==
    (cpc = "done" /\ Cardinality(TrueCells) = 1) =>
        /\ Len(outline) = 1
        /\ Closed(outline[1])
        /\ Len(outline[1]) = 7
        /\ Cardinality(Vertices(outline[1])) = 6
        /\ \A x \in TrueCells :
             Vertices(outline[1]) = {ToPoint(Vertex(x[1], x[2], k)) : k \in 0 .. 5}

\* A single cell away from the origin has been outlined.
C11_Witness ==
    /\ cpc = "done"
    /\ gn > 1
    /\ TrueCells = {<<gn - 1, gn - 1>>}
    /\ Len(outline) = 1

\* The true cells are exactly a solid 2x2 block.
IsBlock ==
    \E i \in 0 .. gn - 2, j \in 0 .. gn - 2 :
        TrueCells = {<<i, j>>, <<i + 1, j>>, <<i, j + 1>>, <<i + 1, j + 1>>}

\* After emission of a block the map holds edges many boundary edges, and the
\* one contour returned for it has as many vertices.
BlockPerimeter(edges) ==
    /\ (Emitted /\ IsBlock) => Cardinality(segments) = edges
    /\ (cpc = "done" /\ IsBlock) =>
          /\ Len(contours) = 1
          /\ Closed(contours[1])
          /\ Cardinality(Vertices(contours[1])) = edges
          /\ Cardinality(ContourEdges(contours[1])) = edges

\* C12 as stated: a solid 2x2 block leaves 8 boundary edges of the 24 emitted,
\* and the single contour has 8 vertices.
C12_BlockHasEightEdges == BlockPerimeter(8)

\* C12: for a mask whose true cells are exactly a solid 2x2 block,
\* extract_contours leaves 14 boundary edges after interior-edge cancellation
\* (out of the 24 emitted: the block has 5 pairs of adjacent cells, each
\* cancelling 2 edges), and the single outer contour's vertex count equals that
\* perimeter edge count.
C12_BlockHasFourteenEdges == BlockPerimeter(14)

\* A block has been emitted, walked and returned.
C12_Witness ==
    /\ cpc = "done"
    /\ IsBlock
    /\ Len(contours) = 1
    /\ Len(contours[1]) = 15

\* The cell across edge k of cell (i, j).
Across(i, j, k) ==
    LET off == << <<0, 1>>, <<-1, 1>>, <<-1, 0>>, <<0, -1>>, <<1, -1>>, <<1, 0>> >>
    IN  <<i + off[k + 1][1], j + off[k + 1][2]>>

\* The directed hexagon edges separating a true cell from a false or off-grid
\* neighbour.
BoundaryEdges ==
    {<<Vertex(x[1], x[2], k), Vertex(x[1], x[2], (k + 1) % 6)>> :
        <<x, k>> \in {y \in TrueCells \X (0 .. 5) :
                        Across(y[1][1], y[1][2], y[2]) \notin TrueCells}}

\* C13: for every mask, the edges that survive in the start-to-end map after
\* the row-major emission are exactly the directed hexagon edges separating a
\* true cell from a false or off-grid neighbour, and the walk partitions them
\* into simple closed loops: each contour starts and ends at the same vertex,
\* visits no vertex twice, and every surviving edge is in exactly one contour.
C13_BoundaryLoops ==
    /\ Emitted => segments = BoundaryEdges
    /\ cpc = "done" =>
          LET boundary == Collect(BoundaryEdges)
              walked == Collect([c \in DOMAIN contours |-> ContourEdges(contours[c])])
          IN  /\ \A c \in DOMAIN contours :
                    /\ Closed(contours[c])
                    /\ Cardinality(Vertices(contours[c])) = Len(contours[c]) - 1
                    /\ Cardinality(walked[c]) = Len(contours[c]) - 1
                    /\ walked[c] \subseteq boundary
              /\ \A e \in boundary : \E c \in DOMAIN contours : e \in walked[c]
              /\ \A c, d \in DOMAIN contours :
                    c # d => walked[c] \cap walked[d] = {}

\* A ring of six cells around a false cell has been outlined: an outer loop
\* and the loop of the hole, with interior edges cancelled.
C13_Witness ==
    /\ cpc = "done"
    /\ gn = 3
    /\ TrueCells = {Across(1, 1, k) : k \in 0 .. 5}
    /\ Len(contours) = 2
    /\ Cardinality(BoundaryEdges) < 6 * Cardinality(TrueCells)

\* C16: no configuration tearing. The worker's parameter set changes only at
\* the top of an iteration, where it becomes the whole shared set of that
\* moment; the seed rebuild, the log record and every stage of the update of
\* that iteration use it, whatever the UI has written to the shared set since.
C16_NoConfigTearing ==
    [][/\ copy' # copy => (pc = "top" /\ copy' = shared)
       /\ (pc = "rebuild" /\ pc' = "publish") =>
             (used' = copy /\ state' = New(n, copy.rho))
       /\ (pc = "record" /\ pc' = "step") =>
             /\ Len(log') = Len(log) + 1
             /\ log'[Len(log')].config = copy
             /\ old_config' = copy
       /\ (pc = "step" /\ pc' = "top") =>
             (used' = copy /\ state' = Update(state, copy, coins', n))]_vars

\* An iteration has recorded and stepped with a parameter set the UI had
\* changed before the iteration and has changed again since it was copied.
C16_Witness ==
    /\ pc = "top"
    /\ op = "update"
    /\ used = copy
    /\ copy # DefaultConfig
    /\ shared # copy
    /\ log # << >>
    /\ log[Len(log)].config = copy

\* Process p has made a call that has not returned.
Calling(p) == <<p, standing[p]>> \in DOMAIN Wanted

\* Process p waits for process q: p's call cannot return while q holds the
\* lock as it does, or p is a reader queued behind the waiting writer q (the
\* lock may hold new readers back while a writer waits).
WaitsFor(p, q) ==
    /\ Calling(p)
    /\ LET call == Wanted[<<p, standing[p]>>]
           l == call.lock
       IN  \/ held[l].writer = q
           \/ call.mode = "write" /\ q \in held[l].readers
           \/ /\ call.mode = "read"
              /\ q # p
              /\ Calling(q)
              /\ Wanted[<<q, standing[q]>>].lock = l
              /\ Wanted[<<q, standing[q]>>].mode = "write"
              /\ ~CanWrite(l)

\* A set of processes each of which waits for one of the set.
Deadlocked(S) == S # {} /\ \A p \in S : \E q \in S : WaitsFor(p, q)

\* C20: deadlock freedom of the threaded driver. In no reachable state does a
\* set of processes wait for one another (so never is every process blocked on
\* a lock); the worker never calls a lock on field while it holds the field
\* write guard; and no two locks are ever taken in both orders.
C20_DeadlockFree ==
    /\ \A S \in SUBSET Procs : ~Deadlocked(S)
    /\ held["field"].writer = "worker" =>
          ~(Calling("worker") /\ Wanted[<<"worker", standing["worker"]>>].lock = "field")
    /\ \A pair \in nested : pair[1] # pair[2] /\ <<pair[2], pair[1]>> \notin nested

\* The worker, holding the log's write guard, waits for field while a reset
\* holds field's write guard and both readers wait as well.
C20_Witness ==
    /\ standing["worker"] = "recording"
    /\ held["log"].writer = "worker"
    /\ held["field"].writer = "listener"
    /\ standing["vis"] = "read"
    /\ standing["stl"] = "read"
    /\ WaitsFor("worker", "listener")
    /\ <<"log", "field">> \in nested

\* acc plus the vapour of those cells of ys[k], ys[k + 1], ... that are not ice
\* in mask a, added one by one in this order.
RECURSIVE SumOpen(_, _, _, _, _)
SumOpen(acc, a, d, ys, k) ==
    IF k > Len(ys) THEN acc
    ELSE SumOpen(IF a[ys[k]] THEN acc ELSE FAdd(acc, d[ys[k]]), a, d, ys, k + 1)

\* C21: Diffusion formula. For every non-ice cell with k ice neighbours in the
\* pre-step mask, Diffusion sets vapor_density to (own + sum of the pre-step
\* vapor_density of its non-ice neighbours + k * own) / 7, from pre-step values
\* only; for every ice cell the post-diffusion vapor_density is 0. The code adds
\* all six neighbours, and every ice cell holds vapor_density 0.
C21_DiffusionFormula ==
    op = "update" =>
        LET neighbors == Collect(LastNeighbors)
            dif == Collect(LastDiffusion)
        IN  \A x \in Cells(n) :
                /\ pre.a[x] => (pre.d[x] = 0 /\ dif[x] = 0)
                /\ ~pre.a[x] =>
                      dif[x] = FDiv(FAdd(SumOpen(pre.d[x], pre.a, pre.d, Nbr(x, n), 1),
                                         FMul(IntToF(neighbors[x]), pre.d[x])),
                                    IntToF(7))

\* An update ran over a non-ice cell with ice neighbours and with non-ice
\* neighbours whose vapour differs from its own, and Diffusion changed its
\* vapour.
C21_Witness ==
    /\ op = "update"
    /\ \E x \in Cells(n) :
         /\ ~pre.a[x]
         /\ LastNeighbors[x] >= 2
         /\ \E y \in Cells(n) :
              Adjacent(x, y, n) /\ ~pre.a[y] /\ pre.d[y] # pre.d[x] /\ pre.d[y] > 0
         /\ LastDiffusion[x] # pre.d[x]
         /\ LastDiffusion[x] > 0

\* The last update left every cell outside the melting set as Attachment left
\* it, and gave each cell of the set (not ice, with an ice neighbour in the
\* mask after Attachment) the masses melted(mu, b) and melted(gamma, c), moving
\* mu * b + gamma * c into its vapour.
MeltsAs(melted(_, _)) ==
    LET frz == Collect(LastFreezing)
        att == Collect(LastAttachment)
    IN  \A x \in Cells(n) :
            IF ~state.a[x] /\ IceNeighbours(state.a, x, n) > 0
              THEN /\ state.b[x] = melted(used.mu, att.b[x])
                   /\ state.c[x] = melted(used.gamma, att.c[x])
                   /\ state.d[x] = FAdd(frz.d[x], FAdd(FMul(used.mu, att.b[x]),
                                                       FMul(used.gamma, att.c[x])))
              ELSE /\ state.b[x] = att.b[x]
                   /\ state.c[x] = att.c[x]
                   /\ state.d[x] = frz.d[x]

\* (1 - rate) * m
Scaled(rate, m) == FMul(FSub(IntToF(1), rate), m)

\* m - rate * m
Reduced(rate, m) == FSub(m, FMul(rate, m))

\* C22 as stated. Melting changes exactly the non-ice cells with an ice
\* neighbour in the mask after Attachment: boundary_mass becomes (1 - mu) * b,
\* crystal_mass becomes (1 - gamma) * c, vapor_density grows by
\* mu * b + gamma * c; every other cell keeps b, c and d.
C22_MeltingScales ==
    (op = "update" /\ used.sigma = 0) => MeltsAs(Scaled)

\* C22 as amended. The same cells and the same frame; boundary_mass becomes
\* b - mu * b and crystal_mass becomes c - gamma * c, the product and the
\* difference each rounded, which for mu and gamma in [0, 1] is within one unit
\* in the last place of b (of c) of the exact (1 - mu) * b ((1 - gamma) * c).
C22_MeltingSubtracts ==
    (op = "update" /\ used.sigma = 0) =>
        /\ MeltsAs(Reduced)
        /\ RatesInRange(used) =>
              LET att == Collect(LastAttachment)
              IN  \A m \in {att.b[x] : x \in Cells(n)} \cup {att.c[x] : x \in Cells(n)} :
                      \A rate \in {used.mu, used.gamma} :
                          Abs(Reduced(rate, m) * Unit - (Unit - rate) * m)
                              <= Unit * Ulp(Abs(m), 1)

\* In the last update a cell froze and kept the crystal mass Attachment gave
\* it, while a cell that stayed on the boundary lost boundary mass to its
\* vapour, by an amount that (1 - mu) * b does not give.
C22_Witness ==
    /\ op = "update"
    /\ used.sigma = 0
    /\ used.gamma > 0
    /\ \E x \in Cells(n) :
         FrozeNow(x) /\ state.c[x] = LastAttachment.c[x] /\ state.c[x] > 0
    /\ \E x \in Cells(n) :
         /\ ~state.a[x]
         /\ IceNeighbours(state.a, x, n) > 0
         /\ state.b[x] < LastAttachment.b[x]
         /\ state.d[x] > LastFreezing.d[x]
         /\ state.b[x] # Scaled(used.mu, LastAttachment.b[x])

\* C23: Freezing stage. For every non-ice cell with pre-step neighbour count
\* > 0 and post-diffusion density d, Freezing adds (1 - kappa) * d to
\* boundary_mass, adds kappa * d to crystal_mass and sets vapor_density to 0;
\* every ice cell and every non-ice cell with neighbour count 0 keeps
\* boundary_mass and crystal_mass and its post-diffusion vapor_density.
C23_FreezingStage ==
    op = "update" =>
        LET dif == Collect(LastDiffusion)
            frz == Collect(LastFreezing)
        IN  \A x \in Cells(n) :
                IF ~pre.a[x] /\ IceNeighbours(pre.a, x, n) > 0
                  THEN /\ frz.b[x] = FAdd(pre.b[x], Scaled(used.kappa, dif[x]))
                       /\ frz.c[x] = FAdd(pre.c[x], FMul(used.kappa, dif[x]))
                       /\ frz.d[x] = 0
                  ELSE /\ frz.b[x] = pre.b[x]
                       /\ frz.c[x] = pre.c[x]
                       /\ frz.d[x] = dif[x]

\* An update ran over a boundary cell that already held boundary mass and
\* took in vapour, and over a non-ice cell without ice neighbour whose vapour
\* Diffusion had changed.
C23_Witness ==
    /\ op = "update"
    /\ used.kappa > 0
    /\ \E x \in Cells(n) :
         /\ ~pre.a[x] /\ IceNeighbours(pre.a, x, n) > 0
         /\ pre.b[x] > 0
         /\ LastFreezing.b[x] > pre.b[x]
         /\ LastFreezing.c[x] > pre.c[x]
    /\ \E x \in Cells(n) :
         /\ ~pre.a[x] /\ IceNeighbours(pre.a, x, n) = 0
         /\ LastFreezing.d[x] # pre.d[x]
         /\ LastFreezing.d[x] > 0

\* C24: once a cell is ice its quantities are final. In every reachable state
\* every ice cell has boundary_mass 0 and vapor_density 0, and no update, with
\* or without noise, changes the crystal_mass, boundary_mass or vapor_density
\* of a cell that was ice before it.
C24_IceIsFinal ==
    /\ \A x \in Cells(n) : state.a[x] => (state.b[x] = 0 /\ state.d[x] = 0)
    /\ op = "update" =>
          \A x \in Cells(n) :
              pre.a[x] => /\ state.c[x] = pre.c[x]
                          /\ state.b[x] = pre.b[x]
                          /\ state.d[x] = pre.d[x]

\* A noisy update ran over a cell that had frozen in an earlier update, next
\* to a cell that is still not ice and whose masses and vapour it changed.
C24_Witness ==
    /\ op = "update"
    /\ Abs(used.sigma) > 0
    /\ \E x, y \in Cells(n) :
         /\ x # Seed(n)
         /\ pre.a[x]
         /\ pre.c[x] # IntToF(1)
         /\ Adjacent(x, y, n)
         /\ ~state.a[y]
         /\ state.b[y] # pre.b[y]
         /\ state.c[y] # pre.c[y]
         /\ state.d[y] > 0

\* C25 as stated. Configuration log ordering: under every interleaving of
\* resets, pauses, configuration changes and worker iterations, the first
\* record of the log has step 0 and the step numbers of its records are
\* strictly increasing (the log having been emptied at each reset).
C25_LogOrdered ==
    /\ log # << >> => log[1].step = 0
    /\ \A i, j \in DOMAIN log : i < j => log[i].step < log[j].step

\* C26: noise changes only vapour. For sigma # 0 and every outcome of the
\* per-cell coins, an update produces the ice mask, boundary_mass and
\* crystal_mass of the same update with sigma = 0, and each cell's
\* vapor_density is its sigma = 0 value multiplied by (1 + sigma) where the
\* cell's coin is heads and by (1 - sigma) where it is tails.
C26_NoiseChangesOnlyVapor ==
    (op = "update" /\ Abs(used.sigma) > 0) =>
        LET quiet == Collect(Update(pre, [used EXCEPT !.sigma = 0], coins, n))
        IN  /\ state.a = quiet.a
            /\ state.b = quiet.b
            /\ state.c = quiet.c
            /\ \A x \in Cells(n) :
                  state.d[x] = IF coins[x]
                                 THEN FMul(quiet.d[x], FAdd(IntToF(1), used.sigma))
                                 ELSE FMul(quiet.d[x], FSub(IntToF(1), used.sigma))

\* A noisy update in which a boundary cell took in vapour and melted, and two
\* cells holding vapour drew different coins.
C26_Witness ==
    /\ op = "update"
    /\ Abs(used.sigma) > 0
    /\ \E x \in Cells(n) : ~state.a[x] /\ state.b[x] > 0 /\ state.b[x] # pre.b[x]
    /\ \E x, y \in Cells(n) :
         /\ coins[x] /\ ~coins[y]
         /\ state.d[x] > 0 /\ state.d[y] > 0
         /\ state.d[x] # state.d[y]

\* C27: neighbour counter. For every n >= 1 and every ice mask, the count
\* State::update computes for cell (i, j) is the number of ice cells among the
\* six positions (i+1,j), (i-1,j), (i,j+1), (i,j-1), (i-1,j+1), (i+1,j-1) taken
\* modulo n in both axes, lies in 0..6, and is computed once from the pre-step
\* mask and used as it is by Diffusion, Freezing and Attachment.
C27_NeighborCounter ==
    op = "update" =>
        LET count == Collect([x \in Cells(n) |-> IceNeighbours(pre.a, x, n)])
            dif == Collect(Diffusion(pre.a, pre.d, count, n))
            frz == Collect(Freezing(pre.a, pre.b, pre.c, dif, count, used.kappa, n))
            att == Collect(Attachment(pre.a, frz.b, frz.c, frz.d, count,
                                      used.beta, used.alpha, used.theta, n))
            mel == Collect(Melting(att.a, att.b, att.c, frz.d, used.mu, used.gamma, n))
        IN  /\ LastNeighbors = count
            /\ \A x \in Cells(n) : LastNeighbors[x] \in 0 .. 6
            /\ state = [a |-> att.a, b |-> mel.b, c |-> mel.c, d |-> mel.d]

\* An update ran on a mask in which a cell on one lattice edge has its only
\* ice neighbour on the opposite edge, another cell has three or more ice
\* neighbours, and the update changed the mask.
C27_Witness ==
    /\ op = "update"
    /\ n = MaxMask
    /\ state.a # pre.a
    /\ \E j \in 0 .. n - 1 :
         /\ ~pre.a[<<0, j>>]
         /\ LastNeighbors[<<0, j>>] = 1
         /\ pre.a[<<n - 1, j>>]
    /\ \E x \in Cells(n) : LastNeighbors[x] >= 3

\* The simulation is paused and has been stepped since its last reset.
Paused == ~field.is_running /\ field.step # 0

\* The worker has not passed the is_running test of its iteration.
BeforeRunningTest == pc \in {"top", "reset?", "running?"}

\* C29 as stated. Pause leaves everything unchanged: while is_running is false
\* and field.step is not 0, no step of the worker changes the lattice state,
\* the published field.cells, field.step or the configuration log, whatever the
\* UI has done to the configuration.
C29_PauseFreezesWorker ==
    [][(Paused /\ pc' # pc) =>
          (state' = state /\ field' = field /\ log' = log)]_vars

\* C29 as amended. While is_running is false and field.step is not 0, every
\* step of a worker iteration that has not passed its is_running test leaves
\* the lattice state, field.cells, field.step and the log unchanged and leads
\* back to the top of the loop, whatever the UI has done to the configuration;
\* only an iteration that had passed the test before the pause came completes.
C29_PauseFreezesNewIterations ==
    [][(Paused /\ BeforeRunningTest /\ pc' # pc) =>
          /\ state' = state
          /\ field' = field
          /\ log' = log
          /\ BeforeRunningTest']_vars

\* While the simulation is paused after an update, the UI has changed the
\* configuration and the worker has copied the new set and come to its
\* is_running test, with the log and the state as the last update left them.
C29_Witness ==
    /\ Paused
    /\ pc = "running?"
    /\ op = "update"
    /\ copy # old_config
    /\ log # << >>
    /\ log[Len(log)].config # copy
    /\ field.cells = Snapshot(state, n)

\* rho >= 0 and kappa, mu, gamma, sigma in [0, 1].
InDomain(config) ==
    /\ config.rho >= 0
    /\ RatesInRange(config)
    /\ 0 <= config.sigma /\ config.sigma <= IntToF(1)

Remaining ==
    3 * Cardinality(DOMAIN ends)
      + CASE spc = "pick" -> 1
          [] spc = "follow" -> IF Current \in DOMAIN ends THEN 0 ELSE 2
          [] OTHER -> 0

\* C28: surface export tolerates malformed boundaries. For every n >= 1 and
\* every cells array the boundary walk of cells_to_triangles never aborts and
\* terminates (every step of it brings it nearer to its end); at a vertex with
\* more than one successor it warns and continues with one of them, at a
\* vertex with none the current contour ends; every entry of the segment map
\* is removed exactly once, and the outer loop ends with the map empty.
C28_WalkTolerates ==
    [][/\ spc' # "abort"
       /\ spc \in {"pick", "follow"} => (Remaining' < Remaining /\ Remaining' >= 0)
       /\ (spc = "follow" /\ Current \in DOMAIN ends) =>
             /\ DOMAIN ends' = DOMAIN ends \ {Current}
             /\ \A v \in DOMAIN ends' : ends'[v] = ends[v]
             /\ Len(traced') = Len(traced)
             /\ Current' \in ends[Current]
             /\ warnings' = warnings + BoolToInt(Cardinality(ends[Current]) > 1)
       /\ (spc = "follow" /\ Current \notin DOMAIN ends) =>
             (spc' = "pick" /\ traced' = traced /\ ends' = ends)
       /\ spc = "pick" => ends' = ends
       /\ spc' = "done" => DOMAIN ends' = {}]_vars

\* An export has ended in which the walk warned at a vertex with two
\* successors and walked more than one contour.
C28_Witness ==
    /\ spc = "done"
    /\ warnings > 0
    /\ Len(traced) > 1
    /\ \E c \in DOMAIN traced : traced[c][1] # traced[c][Len(traced[c])]

\* ------------------------------------------------------------------------
\* Properties of the Reiter variant
\* ------------------------------------------------------------------------

\* The step is an update_grid call.
Ticked == reiter_field'.step = reiter_field.step + 1

\* Cell x has one of its six toroidal neighbours at s >= 1 in grid s.
NearIce(s, x) ==
    \E y \in Cells(n) : Adjacent(x, y, n) /\ s[y] >= IntToF(1)

\* C31: Reiter variant, ice monotonicity. For beta >= 0, gamma >= 0 and alpha
\* in [0, 2], starting from init_grid, every cell with s >= 1 before an
\* update_grid call has s >= 1 after it, and a value no smaller than before.
C31_ReiterIceMonotone ==
    [][Ticked =>
         \A x \in Cells(n) :
             reiter_field.cells[x] >= IntToF(1) =>
                 /\ reiter_field'.cells[x] >= IntToF(1)
                 /\ reiter_field'.cells[x] >= reiter_field.cells[x]]_vars

\* After two updates the seed has grown past 1, another cell has frozen, and
\* a cell is still below 1.
C31_Witness ==
    /\ reiter_field # << >>
    /\ reiter_field.step >= 2
    /\ reiter_field.cells[Seed(n)] > IntToF(1)
    /\ \E x \in Cells(n) : x # Seed(n) /\ reiter_field.cells[x] >= IntToF(1)
    /\ \E x \in Cells(n) : reiter_field.cells[x] < IntToF(1)

\* C32: Reiter variant, boundary-only freezing. For alpha in [0, 2] and any
\* gamma, a cell with s < 1 before update_grid can have s >= 1 after it only
\* if at least one of its six toroidal neighbours had s >= 1 before the
\* update; a cell without such a neighbour stays below 1.
C32_ReiterBoundaryOnly ==
    [][Ticked =>
         \A x \in Cells(n) :
             (reiter_field.cells[x] < IntToF(1) /\ ~NearIce(reiter_field.cells, x)) =>
                 reiter_field'.cells[x] < IntToF(1)]_vars
============================================================================
